---- MODULE Spec2Model ----
(***************************************************************************)
(* Model of the cert-bot classification-and-compliance rule engine         *)
(* (src/cert-bot/src): entity classification, pathway routing, the ordered *)
(* battery of checks of run_all_checks, and disposition aggregation, as    *)
(* driven by pipeline.validate_certificate.                                *)
(*                                                                         *)
(* Strings are TLA+ strings; Python's str operations (lower, upper, strip, *)
(* split, `in`) and the regular expressions the code uses are modelled     *)
(* character by character.  An optional string that is None is modelled as *)
(* "": every read of one in the modelled code goes through `x or ""` or a  *)
(* truthiness test, which treat the two alike.                             *)
(***************************************************************************)
EXTENDS Integers, Sequences, FiniteSets, TLC

VARIABLES
    pc,           \* "start" before validate_certificate runs and "done" after it;
                  \* "call" before a function applied on its own and "returned" after it
    today,        \* date.today() as seen by the checks
    state_arg,    \* the caller's jurisdiction override (validate_certificate's state)
    extracted,    \* what extract_certificate returned for the PDF
    llm_raised,   \* whether the vision extraction raised inside extract_fields_via_llm
    llm_fields,   \* what extract_fields_via_llm returned for the PDF
    regex_fields, \* what parse_certificate returns for extracted.raw_text
    result,       \* the ValidationResult of the run (NoResult before it)
    arg,          \* arguments of a function applied on its own
    ret,          \* what that function returned
    mode,         \* "single" for one run of validate_certificate or one call;
                  \* "local" and "avalara" for the two batch runs of run_batch.py
    docs,         \* the PDFs (local) or certificate listings (avalara) of the batch
    idx,          \* position of the batch loop in docs
    batch_results \* run_batch's list of results

vars ==
    <<pc, today, state_arg, extracted, llm_raised, llm_fields, regex_fields, result, arg, ret,
      mode, docs, idx, batch_results>>

batch_vars == <<mode, docs, idx, batch_results>>

----------------------------------------------------------------------------
(* Python str operations *)

UpperChars == "ABCDEFGHIJKLMNOPQRSTUVWXYZ"
LowerChars == "abcdefghijklmnopqrstuvwxyz"
DigitChars == "0123456789"

CharAt(s, i) == SubSeq(s, i, i)

InChars(c, chars) == \E i \in 1..Len(chars) : CharAt(chars, i) = c

IndexIn(c, chars) == CHOOSE i \in 1..Len(chars) : CharAt(chars, i) = c

LowerChar(c) == IF InChars(c, UpperChars) THEN CharAt(LowerChars, IndexIn(c, UpperChars)) ELSE c

UpperChar(c) == IF InChars(c, LowerChars) THEN CharAt(UpperChars, IndexIn(c, LowerChars)) ELSE c

RECURSIVE Lower(_)
Lower(s) == IF Len(s) = 0 THEN "" ELSE LowerChar(CharAt(s, 1)) \o Lower(SubSeq(s, 2, Len(s)))

RECURSIVE Upper(_)
Upper(s) == IF Len(s) = 0 THEN "" ELSE UpperChar(CharAt(s, 1)) \o Upper(SubSeq(s, 2, Len(s)))

IsSpace(c) == c = " " \/ c = "\n" \/ c = "\t"

IsAlpha(c) == InChars(c, UpperChars) \/ InChars(c, LowerChars)

IsDigit(c) == InChars(c, DigitChars)

\* \w of Python's re on str
IsWordChar(c) == IsAlpha(c) \/ IsDigit(c) \/ c = "_"

RECURSIVE LStrip(_)
LStrip(s) == IF Len(s) > 0 /\ IsSpace(CharAt(s, 1)) THEN LStrip(SubSeq(s, 2, Len(s))) ELSE s

RECURSIVE RStrip(_)
RStrip(s) == IF Len(s) > 0 /\ IsSpace(CharAt(s, Len(s))) THEN RStrip(SubSeq(s, 1, Len(s) - 1)) ELSE s

Strip(s) == RStrip(LStrip(s))

\* t in s
Contains(s, t) == \E i \in 1..(Len(s) - Len(t) + 1) : SubSeq(s, i, i + Len(t) - 1) = t

\* s.startswith(t, i - 1)
StartsAt(s, i, t) == i + Len(t) - 1 <= Len(s) /\ SubSeq(s, i, i + Len(t) - 1) = t

\* [p for p in re.split(r"\s+", s) if p]
RECURSIVE SplitWs(_)
SplitWs(s) ==
    LET t == LStrip(s)
        n == IF \E i \in 1..Len(t) : IsSpace(CharAt(t, i))
             THEN (CHOOSE i \in 1..Len(t) : IsSpace(CharAt(t, i)) /\ \A j \in 1..(i - 1) : ~IsSpace(CharAt(t, j))) - 1
             ELSE Len(t)
    IN  IF Len(t) = 0 THEN <<>> ELSE <<SubSeq(t, 1, n)>> \o SplitWs(SubSeq(t, n + 1, Len(t)))

----------------------------------------------------------------------------
(* datetime.date: a record [y, m, d]; an absent Optional[date] is NoneDate *)

NoneDate == [y |-> 0, m |-> 0, d |-> 0]

Date(y, m, d) == [y |-> y, m |-> m, d |-> d]

IsLeap(y) == (y % 4 = 0 /\ y % 100 # 0) \/ y % 400 = 0

DaysInMonth(y, m) ==
    IF m = 2 THEN (IF IsLeap(y) THEN 29 ELSE 28)
    ELSE IF m \in {4, 6, 9, 11} THEN 30 ELSE 31

RECURSIVE DaysBeforeMonth(_, _)
DaysBeforeMonth(y, m) == IF m = 1 THEN 0 ELSE DaysBeforeMonth(y, m - 1) + DaysInMonth(y, m - 1)

\* date.toordinal(): the day number, on which date subtraction and comparison rest
ToOrdinal(dt) ==
    LET b == dt.y - 1
    IN  b * 365 + (b \div 4) - (b \div 100) + (b \div 400) + DaysBeforeMonth(dt.y, dt.m) + dt.d

\* (a - b).days
DaysBetween(a, b) == ToOrdinal(a) - ToOrdinal(b)

RECURSIVE NatStr(_)
NatStr(n) == IF n < 10 THEN CharAt(DigitChars, n + 1) ELSE NatStr(n \div 10) \o CharAt(DigitChars, (n % 10) + 1)

Pad2(n) == IF n < 10 THEN "0" \o NatStr(n) ELSE NatStr(n)

\* date.isoformat()
IsoFormat(dt) == NatStr(dt.y) \o "-" \o Pad2(dt.m) \o "-" \o Pad2(dt.d)

----------------------------------------------------------------------------
(* models.py: the closed enumerations, by member name *)

FederalForms == {"FEDERAL_SF_1094", "FEDERAL_GSA_CARD", "FEDERAL_LETTERHEAD"}

FormType ==
    { "MTC_UNIFORM", "SST_F0003", "TX_01_339", "NY_ST_120", "NY_ST_121", "NY_ST_119_1",
      "NY_GOV_LETTER", "OH_STEC_B", "OH_DIRECT_PAY", "PA_REV_1220", "IA_31_014A", "MA_ST_2",
      "MA_ST_5", "TN_GOV", "TN_EXEMPT_ORG", "CT_CERT_119", "CT_CERT_100", "MD_GOV_1",
      "MD_NONGOV_1", "FL_DR_14", "IL_E99", "IL_STAX_70", "AL_STE_1", "WA_RESELLER", "VT_S_3",
      "AZ_5000", "KY_51A126", "GOVERNMENT_ISSUED_CARD", "STATE_ISSUED_CERT", "CUSTOM_LETTER",
      "UNKNOWN" } \cup FederalForms

\* FormType.value, where a message prints it
FormValue(f) ==
    CASE f = "MTC_UNIFORM" -> "MTC Uniform Certificate"
      [] f = "SST_F0003" -> "SST Certificate of Exemption (F0003)"
      [] f = "TX_01_339" -> "Texas 01-339"
      [] f = "NY_ST_120" -> "New York ST-120 (Resale)"
      [] f = "NY_ST_121" -> "New York ST-121 (Exempt Use)"
      [] f = "NY_ST_119_1" -> "New York ST-119.1 (Exempt Org)"
      [] f = "NY_GOV_LETTER" -> "New York Government Letter"
      [] f = "OH_STEC_B" -> "Ohio STEC-B"
      [] f = "OH_DIRECT_PAY" -> "Ohio Direct Pay Permit"
      [] f = "PA_REV_1220" -> "Pennsylvania REV-1220"
      [] f = "IA_31_014A" -> "Iowa 31-014a"
      [] f = "MA_ST_2" -> "Massachusetts ST-2 (Exempt Org)"
      [] f = "MA_ST_5" -> "Massachusetts ST-5 (Resale)"
      [] f = "TN_GOV" -> "Tennessee Government (RV-F1301301)"
      [] f = "TN_EXEMPT_ORG" -> "Tennessee Exempt Org (RV-F1306901)"
      [] f = "CT_CERT_119" -> "Connecticut CERT-119"
      [] f = "CT_CERT_100" -> "Connecticut CERT-100/101"
      [] f = "MD_GOV_1" -> "Maryland GOV-1 Card"
      [] f = "MD_NONGOV_1" -> "Maryland NONGOV-1 Card"
      [] f = "FL_DR_14" -> "Florida DR-14"
      [] f = "IL_E99" -> "Illinois E-99"
      [] f = "IL_STAX_70" -> "Illinois STAX-70"
      [] f = "AL_STE_1" -> "Alabama STE-1"
      [] f = "WA_RESELLER" -> "Washington Reseller Permit"
      [] f = "VT_S_3" -> "Vermont S-3"
      [] f = "AZ_5000" -> "Arizona Form 5000"
      [] f = "KY_51A126" -> "Kentucky 51A126"
      [] f = "FEDERAL_SF_1094" -> "Federal SF-1094"
      [] f = "FEDERAL_GSA_CARD" -> "Federal GSA SmartPay Card"
      [] f = "FEDERAL_LETTERHEAD" -> "Federal Agency Letterhead"
      [] f = "GOVERNMENT_ISSUED_CARD" -> "Government-Issued Exemption Card"
      [] f = "STATE_ISSUED_CERT" -> "State-Issued Certificate"
      [] f = "CUSTOM_LETTER" -> "Custom Letter/Other"
      [] OTHER -> "Unknown"

EntityType ==
    { "FEDERAL_GOVERNMENT", "STATE_GOVERNMENT", "LOCAL_GOVERNMENT", "TRIBAL", "NONPROFIT_501C3",
      "EXEMPT_ORG_OTHER", "FOR_PROFIT", "EDUCATIONAL", "RELIGIOUS", "UNKNOWN" }

ValidationPathway ==
    { "STANDARD_SELF_COMPLETED", "GOV_CARD_NO_EXPIRY", "GOV_CARD_WITH_EXPIRY", "STATE_ISSUED_CERT",
      "FEDERAL_EXEMPTION", "MULTI_STATE_UNIFORM", "SPECIAL_PERMIT" }

\* an absent Optional[ExemptionCategory] is "None"
ExemptionCategory ==
    { "GOVERNMENT", "RESALE", "NONPROFIT", "MANUFACTURING", "AGRICULTURE", "COMMON_CARRIER",
      "INDUSTRIAL_RD", "CONSTRUCTION", "DIRECT_PAY", "DIPLOMATIC", "OTHER" }

CategoryValue(c) ==
    CASE c = "GOVERNMENT" -> "Government Entity"
      [] c = "RESALE" -> "Resale"
      [] c = "NONPROFIT" -> "Nonprofit/Tax-Exempt Organization"
      [] c = "MANUFACTURING" -> "Manufacturing"
      [] c = "AGRICULTURE" -> "Agriculture"
      [] c = "COMMON_CARRIER" -> "Common Carrier/Transportation"
      [] c = "INDUSTRIAL_RD" -> "Industrial Use / R&D"
      [] c = "CONSTRUCTION" -> "Construction Contractor"
      [] c = "DIRECT_PAY" -> "Direct Pay Permit"
      [] c = "DIPLOMATIC" -> "Diplomatic/Foreign"
      [] OTHER -> "Other"

Disposition == {"VALIDATED", "VALIDATED_WITH_NOTES", "NEEDS_CORRECTION", "NEEDS_HUMAN_REVIEW"}

CheckSeverity == {"HARD_FAIL", "SOFT_FLAG", "REASONABLENESS", "INFO"}

\* CheckResult(check_name, passed, severity, message)
CheckResult(name, passed, severity, message) ==
    [check_name |-> name, passed |-> passed, severity |-> severity, message |-> message]

\* the None a check returns when it abstains
NoneResult == [check_name |-> "None", passed |-> FALSE, severity |-> "None", message |-> ""]

\* ExtractedFields, the fields the rule engine reads.  signature_present is
\* Optional[bool]: "None", "True" or "False".  The four tax-identifier fields
\* (purchaser_tax_id, purchaser_fein, permit_number, account_number) are set to
\* one value by both extractors and are the one field tax_id.
\* extraction_confidence is in hundredths (0.8 is 80).
ExtractedFields(name, address, pstate, seller, reason, category, sig, cdate, edate, btype, taxid, text, conf, form, states) ==
    [ purchaser_name |-> name, purchaser_address |-> address, purchaser_state |-> pstate,
      seller_name |-> seller, exemption_reason |-> reason, exemption_category |-> category,
      signature_present |-> sig, cert_date |-> cdate, expiration_date |-> edate,
      business_type |-> btype, tax_id |-> taxid, raw_text |-> text,
      extraction_confidence |-> conf, form_type_detected |-> form, exemption_states |-> states ]

----------------------------------------------------------------------------
(* validate.py: the completeness checks *)

SelfCompletedPathways == {"STANDARD_SELF_COMPLETED", "MULTI_STATE_UNIFORM"}

check_purchaser_name(fields) ==
    IF fields.purchaser_name = "" \/ Len(Strip(fields.purchaser_name)) < 2
    THEN CheckResult("completeness.purchaser_name", FALSE, "HARD_FAIL", "Missing purchaser/buyer name")
    ELSE CheckResult("completeness.purchaser_name", TRUE, "INFO",
                     "Purchaser name present: " \o fields.purchaser_name)

entity_indicators ==
    << "llc", "inc", "corp", "ltd", "lp", "llp", "co", "company", "department",
       "city of", "county of", "district", "authority", "board", "commission",
       "foundation", "association", "university", "college", "church", "temple",
       "services", "solutions", "group", "holdings", "enterprise", "tribe", "tribal",
       "esd", "isd", "school", "state of", "town of", "village of", "parish" >>

\* any(ind in lower for ind in entity_indicators)
HasEntityIndicator(lower) == \E k \in 1..Len(entity_indicators) : Contains(lower, entity_indicators[k])

NameTailChars == "'-."

\* a token of letters only
IsAlphaPart_LettersOnly(p) ==
    Len(p) >= 1 /\ \A i \in 1..Len(p) : IsAlpha(CharAt(p, i))

\* re.fullmatch(r"[A-Za-z][A-Za-z'\-.]*", p)
IsAlphaPart(p) ==
    /\ Len(p) >= 1
    /\ IsAlpha(CharAt(p, 1))
    /\ \A i \in 2..Len(p) : IsAlpha(CharAt(p, i)) \/ InChars(CharAt(p, i), NameTailChars)

\* re.fullmatch(r"[A-Z][a-zA-Z'\-.]*", p)
IsCapPart(p) ==
    /\ Len(p) >= 1
    /\ InChars(CharAt(p, 1), UpperChars)
    /\ \A i \in 2..Len(p) : IsAlpha(CharAt(p, i)) \/ InChars(CharAt(p, i), NameTailChars)

check_purchaser_name_is_entity(fields) ==
    LET name == Strip(fields.purchaser_name)
        lower == Lower(name)
        parts == SplitWs(name)
        alpha_parts == SelectSeq(parts, IsAlphaPart)
        cap_pattern == IF Len(alpha_parts) > 0
                       THEN \A k \in 1..Len(alpha_parts) : IsCapPart(alpha_parts[k])
                       ELSE FALSE
    IN  IF name = ""
        THEN CheckResult("completeness.purchaser_name_is_entity", FALSE, "HARD_FAIL",
                         "Purchaser name missing; cannot verify entity vs personal name")
        ELSE IF HasEntityIndicator(lower)
        THEN CheckResult("completeness.purchaser_name_is_entity", TRUE, "INFO",
                         "Purchaser name appears to be an entity.")
        ELSE IF Len(alpha_parts) \in {2, 3} /\ Len(alpha_parts) = Len(parts) /\ cap_pattern
        THEN CheckResult("completeness.purchaser_name_is_entity", FALSE, "HARD_FAIL",
                         "Purchaser name '" \o name \o "' appears to be a personal name, not a legal entity.")
        ELSE CheckResult("completeness.purchaser_name_is_entity", FALSE, "SOFT_FLAG",
                         "Purchaser name '" \o name \o "' is ambiguous and may be a sole proprietor/DBA.")

\* check_purchaser_address passing where it does not apply
check_purchaser_address_VacuousPass(fields, pathway) ==
    IF pathway \notin SelfCompletedPathways
    THEN CheckResult("completeness.purchaser_address", TRUE, "INFO", "Purchaser address present.")
    ELSE IF fields.purchaser_address = "" \/ Len(Strip(fields.purchaser_address)) < 5
    THEN CheckResult("completeness.purchaser_address", FALSE, "HARD_FAIL", "Missing purchaser address")
    ELSE CheckResult("completeness.purchaser_address", TRUE, "INFO", "Purchaser address present.")

check_purchaser_address(fields, pathway) ==
    IF pathway \notin SelfCompletedPathways THEN NoneResult
    ELSE IF fields.purchaser_address = "" \/ Len(Strip(fields.purchaser_address)) < 5
    THEN CheckResult("completeness.purchaser_address", FALSE, "HARD_FAIL", "Missing purchaser address")
    ELSE CheckResult("completeness.purchaser_address", TRUE, "INFO", "Purchaser address present.")

\* reasonableness_rules.json, seller_name_variants: exact_matches + acceptable_variants
SellerNameVariants == {"Fleetio", "Fleetio, Inc.", "Fleetio Inc", "Rarestep, Inc.", "Rarestep Inc"}

GenericSellerNames == {"seller", "vendor", "vendor name", "seller name"}

\* check_seller_name without the generic-placeholder branch
check_seller_name_NoPlaceholder(fields, pathway) ==
    LET seller == Strip(fields.seller_name)
        lower == Lower(seller)
    IN  IF pathway \notin SelfCompletedPathways THEN NoneResult
        ELSE IF seller = ""
        THEN CheckResult("completeness.seller_name", FALSE, "HARD_FAIL", "Missing seller name")
        ELSE IF lower \in {Lower(v) : v \in SellerNameVariants}
        THEN CheckResult("completeness.seller_name", TRUE, "INFO",
                         "Seller name matches accepted Fleetio variant: " \o seller)
        ELSE IF Contains(lower, "fleetio") \/ Contains(lower, "rarestep")
        THEN CheckResult("completeness.seller_name", TRUE, "INFO",
                         "Seller name contains Fleetio/Rarestep reference: " \o seller)
        ELSE CheckResult("completeness.seller_name", FALSE, "HARD_FAIL",
                         "Seller name '" \o seller \o "' does not match Fleetio/Rarestep variants.")

check_seller_name(fields, pathway) ==
    LET seller == Strip(fields.seller_name)
        accepted == {Lower(v) : v \in SellerNameVariants}
        lower == Lower(seller)
    IN  IF pathway \notin SelfCompletedPathways THEN NoneResult
        ELSE IF seller = ""
        THEN CheckResult("completeness.seller_name", FALSE, "HARD_FAIL", "Missing seller name")
        ELSE IF lower \in accepted
        THEN CheckResult("completeness.seller_name", TRUE, "INFO",
                         "Seller name matches accepted Fleetio variant: " \o seller)
        ELSE IF Contains(lower, "fleetio") \/ Contains(lower, "rarestep")
        THEN CheckResult("completeness.seller_name", TRUE, "INFO",
                         "Seller name contains Fleetio/Rarestep reference: " \o seller)
        ELSE IF lower \in GenericSellerNames
        THEN CheckResult("completeness.seller_name", FALSE, "SOFT_FLAG",
                         "Seller name '" \o seller \o "' is generic and may be incomplete.")
        ELSE CheckResult("completeness.seller_name", FALSE, "HARD_FAIL",
                         "Seller name '" \o seller \o "' does not match Fleetio/Rarestep variants.")

check_exemption_reason(fields, pathway) ==
    IF pathway \notin SelfCompletedPathways THEN NoneResult
    ELSE IF fields.exemption_reason = "" \/ Len(Strip(fields.exemption_reason)) < 3
    THEN CheckResult("completeness.exemption_reason", FALSE, "HARD_FAIL", "Missing exemption reason/type")
    ELSE CheckResult("completeness.exemption_reason", TRUE, "INFO",
                     "Exemption reason present: " \o fields.exemption_reason)

check_signature(fields, pathway) ==
    IF pathway \notin SelfCompletedPathways THEN NoneResult
    ELSE IF fields.signature_present # "True"
    THEN CheckResult("completeness.signature", FALSE, "HARD_FAIL", "Missing purchaser signature")
    ELSE CheckResult("completeness.signature", TRUE, "INFO", "Signature present.")

check_date(fields, pathway) ==
    IF pathway \notin SelfCompletedPathways THEN NoneResult
    ELSE IF fields.cert_date = NoneDate
    THEN CheckResult("completeness.cert_date", FALSE, "HARD_FAIL", "Missing certificate date")
    ELSE CheckResult("completeness.cert_date", TRUE, "INFO",
                     "Certificate date present: " \o IsoFormat(fields.cert_date))

RECURSIVE JoinComma(_)
\* ", ".join(seq)
JoinComma(seq) ==
    IF Len(seq) = 0 THEN ""
    ELSE IF Len(seq) = 1 THEN seq[1]
    ELSE seq[1] \o ", " \o JoinComma(Tail(seq))

check_exemption_state(fields, state) ==
    LET normalized == Upper(Strip(state))
    IN  IF normalized # ""
        THEN CheckResult("completeness.exemption_state", TRUE, "INFO",
                         "Exemption state identified: " \o normalized)
        ELSE IF Len(fields.exemption_states) > 0
        THEN CheckResult("completeness.exemption_state", TRUE, "INFO",
                         "Exemption states listed: " \o JoinComma(fields.exemption_states))
        ELSE CheckResult("completeness.exemption_state", FALSE, "HARD_FAIL",
                         "Could not determine exemption state from certificate.")

\* a count of the HARD_FAIL-severity results, passed ones included
HardFailCount_AnyOutcome(results) ==
    Len(SelectSeq(results, LAMBDA r : r.severity = "HARD_FAIL"))

\* sum(1 for r in results if not r.passed and r.severity == HARD_FAIL)
RECURSIVE HardFailCount(_)
HardFailCount(results) ==
    IF Len(results) = 0 THEN 0
    ELSE (IF ~results[1].passed /\ results[1].severity = "HARD_FAIL" THEN 1 ELSE 0)
         + HardFailCount(Tail(results))

CompoundThreshold == 3

check_compound_failure(previous_results) ==
    LET hard_fail_count == HardFailCount(previous_results)
    IN  IF hard_fail_count >= CompoundThreshold
        THEN CheckResult("completeness.compound_failure", FALSE, "HARD_FAIL",
                         "Compound failure: " \o NatStr(hard_fail_count) \o " HARD_FAIL checks triggered.")
        ELSE NoneResult

----------------------------------------------------------------------------
(* validate.py: form-correctness and jurisdiction-specific checks *)

\* _FORM_STATE_MAP
FormStateMap ==
    [ TX_01_339 |-> "TX", OH_STEC_B |-> "OH", OH_DIRECT_PAY |-> "OH", PA_REV_1220 |-> "PA",
      IA_31_014A |-> "IA", MA_ST_2 |-> "MA", MA_ST_5 |-> "MA", TN_GOV |-> "TN",
      TN_EXEMPT_ORG |-> "TN", CT_CERT_119 |-> "CT", CT_CERT_100 |-> "CT", MD_GOV_1 |-> "MD",
      MD_NONGOV_1 |-> "MD", FL_DR_14 |-> "FL", IL_E99 |-> "IL", IL_STAX_70 |-> "IL",
      AL_STE_1 |-> "AL", WA_RESELLER |-> "WA", VT_S_3 |-> "VT", AZ_5000 |-> "AZ",
      KY_51A126 |-> "KY", NY_ST_120 |-> "NY", NY_ST_121 |-> "NY", NY_ST_119_1 |-> "NY",
      NY_GOV_LETTER |-> "NY" ]

\* check_form_correct_for_state on the jurisdiction as given
check_form_correct_for_state_AsGiven(form_type, state) ==
    IF state = "" \/ form_type = "UNKNOWN" THEN NoneResult
    ELSE IF form_type \in FederalForms \cup {"MTC_UNIFORM", "SST_F0003"}
    THEN CheckResult("form_correctness.form_state_match", TRUE, "INFO", "Federal form accepted in all states.")
    ELSE IF form_type \in DOMAIN FormStateMap /\ FormStateMap[form_type] # state
    THEN CheckResult("form_correctness.form_state_match", FALSE, "HARD_FAIL",
                     FormValue(form_type) \o " is a " \o FormStateMap[form_type]
                     \o " form and cannot support a " \o state \o " claim.")
    ELSE CheckResult("form_correctness.form_state_match", TRUE, "INFO",
                     "Form type " \o FormValue(form_type) \o " aligns with state " \o state \o ".")

check_form_correct_for_state(form_type, state) ==
    LET normalized_state == Upper(Strip(state))
    IN  IF normalized_state = "" \/ form_type = "UNKNOWN" THEN NoneResult
        ELSE IF form_type \in FederalForms
        THEN CheckResult("form_correctness.form_state_match", TRUE, "INFO",
                         "Federal form accepted in all states.")
        ELSE IF form_type = "MTC_UNIFORM"
        THEN CheckResult("form_correctness.form_state_match", TRUE, "INFO",
                         "MTC Uniform form accepted for evaluation in " \o normalized_state
                         \o " (state restrictions checked separately).")
        ELSE IF form_type = "SST_F0003"
        THEN CheckResult("form_correctness.form_state_match", TRUE, "INFO",
                         "SST form routed for " \o normalized_state \o "; membership checked separately.")
        ELSE IF form_type \in DOMAIN FormStateMap /\ FormStateMap[form_type] # normalized_state
        THEN CheckResult("form_correctness.form_state_match", FALSE, "HARD_FAIL",
                         FormValue(form_type) \o " is a " \o FormStateMap[form_type]
                         \o " form and cannot support a " \o normalized_state \o " claim.")
        ELSE CheckResult("form_correctness.form_state_match", TRUE, "INFO",
                         "Form type " \o FormValue(form_type) \o " aligns with state "
                         \o normalized_state \o ".")

\* an absent category is "None"
derive_exemption_category(fields) ==
    LET reason == Lower(fields.exemption_reason)
    IN  IF fields.exemption_category # "None" THEN fields.exemption_category
        ELSE IF Contains(reason, "resale") THEN "RESALE"
        ELSE IF Contains(reason, "government") \/ Contains(reason, "gov") THEN "GOVERNMENT"
        ELSE IF Contains(reason, "nonprofit") \/ Contains(reason, "501") THEN "NONPROFIT"
        ELSE "None"

\* \b between s[i-1] and s[i] (1-based; outside the string counts as a non-word character)
WordBoundaryAt(s, i) ==
    LET before == i >= 2 /\ i - 1 <= Len(s) /\ IsWordChar(CharAt(s, i - 1))
        after == i >= 1 /\ i <= Len(s) /\ IsWordChar(CharAt(s, i))
    IN  before # after

RECURSIVE SkipSpaces(_, _)
\* where \s* starting at i stops
SkipSpaces(s, i) == IF i <= Len(s) /\ IsSpace(CharAt(s, i)) THEN SkipSpaces(s, i + 1) ELSE i

IsAlnumUpper(c) == InChars(c, UpperChars) \/ IsDigit(c)

RECURSIVE AlnumRunEnd(_, _)
\* where [A-Z0-9]* starting at i stops
AlnumRunEnd(s, i) == IF i <= Len(s) /\ IsAlnumUpper(CharAt(s, i)) THEN AlnumRunEnd(s, i + 1) ELSE i

RegistrationMinLen == 4

\* re.search(r"\b<code>\s*[-#:]?\s*[A-Z0-9]{4,}\b", haystack)
HasStatePrefixedNumber(haystack, code) ==
    \E i \in 1..Len(haystack) :
        /\ WordBoundaryAt(haystack, i)
        /\ StartsAt(haystack, i, code)
        /\ LET p1 == SkipSpaces(haystack, i + Len(code))
               p2 == IF p1 <= Len(haystack) /\ InChars(CharAt(haystack, p1), "-#:") THEN p1 + 1 ELSE p1
               p3 == SkipSpaces(haystack, p2)
               p4 == AlnumRunEnd(haystack, p3)
           IN  p4 - p3 >= RegistrationMinLen /\ WordBoundaryAt(haystack, p4)

RECURSIVE MatchWordsAt(_, _, _)
\* words[1]\s+words[2]\s+... matches at i
MatchWordsAt(s, i, words) ==
    /\ StartsAt(s, i, words[1])
    /\ \/ Len(words) = 1
       \/ LET j == i + Len(words[1])
          IN  SkipSpaces(s, j) > j /\ MatchWordsAt(s, SkipSpaces(s, j), Tail(words))

\* re.search of words joined by \s+
HasPhrase(s, words) == \E i \in 1..Len(s) : i + Len(words[1]) - 1 <= Len(s) /\ MatchWordsAt(s, i, words)

IsIdChar(c) == IsAlnumUpper(c) \/ c = "-"

GenericIdMinLen == 6

\* re.search(r"\b[A-Z0-9-]{6,}\b", haystack)
HasGenericId(haystack) ==
    \E i \in 1..Len(haystack) : \E j \in (i + GenericIdMinLen - 1)..Len(haystack) :
        /\ \A k \in i..j : IsIdChar(CharAt(haystack, k))
        /\ WordBoundaryAt(haystack, i)
        /\ WordBoundaryAt(haystack, j + 1)

has_state_registration(fields, state) ==
    LET haystack == Upper(fields.tax_id \o " " \o fields.tax_id \o " " \o fields.tax_id \o " "
                          \o fields.tax_id \o " " \o fields.raw_text)
    IN  IF state = "PA"
        THEN HasStatePrefixedNumber(haystack, "PA")
             \/ HasPhrase(haystack, <<"SALES", "AND", "USE", "TAX", "LICENSE">>)
        ELSE IF state = "MD"
        THEN HasStatePrefixedNumber(haystack, "MD") \/ HasPhrase(haystack, <<"REGISTRATION", "NUMBER">>)
        ELSE HasGenericId(haystack)

\* mtc_restrictions.json, resale_only_states: state -> alternative_forms
ResaleOnlyStates ==
    [ TN |-> <<"RV-F1301301", "RV-F1306901">>, NY |-> <<"ST-120", "ST-121">> ]

\* mtc_restrictions.json, registration_required_states: state -> requirement
RegistrationRequiredStates ==
    [ PA |-> "PA Sales and Use Tax license number", MD |-> "MD registration number",
      TN |-> "Tennessee registration number" ]

\* mtc_restrictions.json, correction_template, applied to (state, alternative_forms)
CorrectionTemplate(state, alternative_forms) ==
    "The MTC Uniform Certificate is accepted for resale only in " \o state
    \o ". Please resubmit using: " \o alternative_forms \o "."

\* check_mtc_resale_only reading the category field and not the derived category
check_mtc_resale_only_FieldCategory(fields, form_type, state) ==
    LET normalized_state == Upper(Strip(state))
        category == fields.exemption_category
        alt_forms == ResaleOnlyStates[normalized_state]
    IN  IF form_type # "MTC_UNIFORM" THEN NoneResult
        ELSE IF normalized_state \in DOMAIN ResaleOnlyStates /\ category # "RESALE"
        THEN CheckResult("form_correctness.mtc_resale_only", FALSE, "HARD_FAIL",
                         CorrectionTemplate(normalized_state,
                                            IF Len(alt_forms) > 0 THEN JoinComma(alt_forms)
                                            ELSE "state-specific forms"))
        ELSE CheckResult("form_correctness.mtc_resale_only", TRUE, "INFO",
                         "MTC form passes " \o normalized_state \o " resale/registration restrictions.")

check_mtc_resale_only(fields, form_type, state) ==
    LET normalized_state == Upper(Strip(state))
        category == derive_exemption_category(fields)
        alt_forms == ResaleOnlyStates[normalized_state]
    IN  IF form_type # "MTC_UNIFORM" THEN NoneResult
        ELSE IF normalized_state \in DOMAIN ResaleOnlyStates /\ category # "RESALE"
        THEN CheckResult("form_correctness.mtc_resale_only", FALSE, "HARD_FAIL",
                         CorrectionTemplate(normalized_state,
                                            IF Len(alt_forms) > 0 THEN JoinComma(alt_forms)
                                            ELSE "state-specific forms"))
        ELSE IF normalized_state \in DOMAIN RegistrationRequiredStates
                /\ ~has_state_registration(fields, normalized_state)
        THEN CheckResult("form_correctness.mtc_registration_required", FALSE, "HARD_FAIL",
                         "MTC " \o normalized_state \o " requirement not met: "
                         \o RegistrationRequiredStates[normalized_state] \o ".")
        ELSE CheckResult("form_correctness.mtc_resale_only", TRUE, "INFO",
                         "MTC form passes " \o normalized_state \o " resale/registration restrictions.")

\* state_rules.json, sst_member_states
SstMemberStates == {"OH", "TN", "IA", "KY", "VT", "WA"}

\* check_sst_member looking the jurisdiction up as given, not trimmed and upper-cased
check_sst_member_AsGiven(form_type, state) ==
    IF form_type # "SST_F0003" THEN NoneResult
    ELSE IF state \notin SstMemberStates
    THEN CheckResult("form_correctness.sst_member", FALSE, "HARD_FAIL",
                     "SST Certificate of Exemption is not accepted in " \o state \o ". "
                     \o state \o " is not an SST member state. Please submit a state-specific form.")
    ELSE CheckResult("form_correctness.sst_member", TRUE, "INFO", state \o " is an SST member state.")

check_sst_member(form_type, state) ==
    LET normalized_state == Upper(Strip(state))
        alternative == IF normalized_state = "TX" THEN FormStateMap["TX_01_339"] ELSE "a state-specific form"
    IN  IF form_type # "SST_F0003" THEN NoneResult
        ELSE IF normalized_state \notin SstMemberStates
        THEN CheckResult("form_correctness.sst_member", FALSE, "HARD_FAIL",
                         "SST Certificate of Exemption is not accepted in " \o normalized_state \o ". "
                         \o normalized_state \o " is not an SST member state. Please submit "
                         \o alternative \o ".")
        ELSE CheckResult("form_correctness.sst_member", TRUE, "INFO",
                         normalized_state \o " is an SST member state.")

check_state_specific_requirements(fields, form_type, state) ==
    LET normalized_state == Upper(Strip(state))
        txt == Lower(fields.raw_text)
    IN  IF normalized_state = "PA" /\ form_type = "MTC_UNIFORM" /\ ~has_state_registration(fields, "PA")
        THEN CheckResult("state_specific.pa_mtc_license", FALSE, "HARD_FAIL",
                         "PA + MTC requires PA Sales and Use Tax license number.")
        ELSE IF normalized_state = "MD" /\ form_type = "MTC_UNIFORM" /\ ~has_state_registration(fields, "MD")
        THEN CheckResult("state_specific.md_mtc_registration", FALSE, "HARD_FAIL",
                         "MD + MTC requires MD registration number.")
        ELSE IF /\ normalized_state = "MA" /\ form_type = "MA_ST_2"
                /\ ~Contains(txt, "501(c)(3)") /\ ~Contains(txt, "determination letter")
        THEN CheckResult("state_specific.ma_st2_501c3_letter", FALSE, "SOFT_FLAG",
                         "MA ST-2 generally supported by IRS 501(c)(3) determination letter; not found in packet.")
        ELSE IF normalized_state = "TX" /\ fields.exemption_category = "GOVERNMENT"
        THEN CheckResult("state_specific.tx_gov_tax_id_optional", TRUE, "INFO",
                         "TX government entities do not require tax ID number on exemption cert.")
        ELSE NoneResult

----------------------------------------------------------------------------
(* validate.py: temporal checks *)

\* dict.get(key, default) on a configuration entry
Get(cfg, key, default) == IF key \in DOMAIN cfg THEN cfg[key] ELSE default

\* {**a, **b}
Merge(a, b) == [k \in (DOMAIN a) \cup (DOMAIN b) |-> IF k \in DOMAIN b THEN b[k] ELSE a[k]]

\* state_rules.json, expiration_rules
ExpirationRules ==
    [ TX |-> [rule |-> "never", citation |-> "Tex. Tax Code 151.054", note |-> "No renewal required"],
      OH |-> [rule |-> "never", note |-> "No renewal required"],
      AL |-> [rule |-> "annual", citation |-> "Ala. Admin. Code 810-6-5-.02", note |-> "Renew annually"],
      PA |-> [rule |-> "fixed_years", years |-> 4, note |-> "Renew every four years"],
      FL |-> [rule |-> "state_printed", note |-> "Renew by the printed expiration date"],
      MD |-> [rule |-> "form_specific", note |-> "Depends on the card",
              forms |-> ("GOV-1" :> [rule |-> "never"]) @@ ("NONGOV-1" :> [rule |-> "state_printed"])],
      TN |-> [rule |-> "form_specific", note |-> "Depends on the certificate",
              forms |-> [ gov |-> [rule |-> "never"],
                          exempt_org |-> [rule |-> "fixed_years", years |-> 4] ]],
      FEDERAL |-> [rule |-> "never", note |-> "Federal exemption does not expire"],
      DEFAULT |-> [rule |-> "fixed_years", years |-> 3, note |-> "Renew every three years"] ]

\* key_map of _resolve_expiration_rule
FormRuleKey ==
    [ MD_GOV_1 |-> "GOV-1", MD_NONGOV_1 |-> "NONGOV-1", MA_ST_2 |-> "ST-2", MA_ST_5 |-> "ST-5",
      TN_GOV |-> "gov", TN_EXEMPT_ORG |-> "exempt_org" ]

NeverRule == [rule |-> "never"]

\* returns <<rule_cfg, rule_source>>
resolve_expiration_rule(state, form_type) ==
    LET rules == ExpirationRules
        state_rule == Get(rules, state, Get(rules, "DEFAULT", NeverRule))
        rule == Get(state_rule, "rule", "never")
        forms == Get(state_rule, "forms", <<>>)
        key == Get(FormRuleKey, form_type, "")
        selected == Get(forms, key, NeverRule)
    IN  IF form_type \in FederalForms THEN <<Get(rules, "FEDERAL", NeverRule), "FEDERAL">>
        ELSE IF rule # "form_specific" THEN <<state_rule, state>>
        ELSE <<Merge(state_rule, selected), state \o ":" \o Get(FormRuleKey, form_type, "default")>>

RenewalWindowDays == 90

date_window_result(check_name, expiration, state, citation, now) ==
    LET cite_suffix == IF citation # "" THEN " Citation: " \o citation \o "." ELSE ""
    IN  IF ToOrdinal(now) > ToOrdinal(expiration)
        THEN CheckResult(check_name, FALSE, "HARD_FAIL",
                         "Certificate expired on " \o IsoFormat(expiration) \o " per " \o state
                         \o " rules." \o cite_suffix)
        ELSE IF DaysBetween(expiration, now) <= RenewalWindowDays
        THEN CheckResult(check_name, FALSE, "SOFT_FLAG",
                         "Certificate expiring within 90 days (" \o IsoFormat(expiration)
                         \o "). Queue renewal." \o cite_suffix)
        ELSE CheckResult(check_name, TRUE, "INFO",
                         "Certificate valid through " \o IsoFormat(expiration) \o " under " \o state
                         \o " expiration rules." \o cite_suffix)

AddYears_MarchFirst(dt, years) ==
    IF dt.d <= DaysInMonth(dt.y + years, dt.m)
    THEN Date(dt.y + years, dt.m, dt.d)
    ELSE Date(dt.y + years, 3, 1)

\* cert_date.replace(year=cert_date.year + years), the ValueError of a Feb 29
\* that the target year lacks caught and replaced by Feb 28
AddYears(dt, years) ==
    IF dt.d <= DaysInMonth(dt.y + years, dt.m)
    THEN Date(dt.y + years, dt.m, dt.d)
    ELSE Date(dt.y + years, 2, 28)

check_expiration(fields, state, form_type, now) ==
    LET stripped == Upper(Strip(state))
        normalized_state == IF stripped = "" THEN "DEFAULT" ELSE stripped
        resolved == resolve_expiration_rule(normalized_state, form_type)
        rule_cfg == resolved[1]
        rule_source == resolved[2]
        rule == Get(rule_cfg, "rule", "never")
        citation == Get(rule_cfg, "citation", "")
        years == IF rule = "annual" THEN 1 ELSE Get(rule_cfg, "years", 0)
    IN  IF rule = "never"
        THEN CheckResult("expiration.state_rule", TRUE, "INFO",
                         Strip("No expiration under rule '" \o rule \o "' (" \o rule_source \o "). " \o citation))
        ELSE IF rule \in {"fixed_years", "annual"}
        THEN IF fields.cert_date = NoneDate
             THEN CheckResult("expiration.state_rule", FALSE, "SOFT_FLAG",
                              "Cannot compute expiration for rule '" \o rule \o "' without certificate date.")
             ELSE date_window_result("expiration.state_rule", AddYears(fields.cert_date, years),
                                     normalized_state, citation, now)
        ELSE IF rule \in {"state_printed", "period_cert"}
        THEN IF fields.expiration_date = NoneDate
             THEN CheckResult("expiration.state_rule", FALSE, "SOFT_FLAG",
                              "No expiration date found on state-issued certificate.")
             ELSE date_window_result("expiration.state_rule", fields.expiration_date,
                                     normalized_state, citation, now)
        ELSE CheckResult("expiration.state_rule", TRUE, "INFO",
                         "Unhandled expiration rule '" \o rule \o "' defaulted to pass.")

check_future_date(fields, now) ==
    IF fields.cert_date = NoneDate THEN NoneResult
    ELSE IF ToOrdinal(fields.cert_date) > ToOrdinal(now)
    THEN CheckResult("expiration.future_date", FALSE, "HARD_FAIL",
                     "Certificate date " \o IsoFormat(fields.cert_date) \o " is in the future.")
    ELSE CheckResult("expiration.future_date", TRUE, "INFO", "Certificate date is not in the future.")

\* state_rules.json, cert_age_flags: the notes of the three buckets
CertAgeFlags ==
    ("3_to_4_years" :> "Renewal recommended within next year")
    @@ ("4_to_5_years" :> "Certificate aging; request updated cert")
    @@ ("5_plus_years" :> "Certificate is 5+ years old; best practice is to obtain updated documentation")

\* 365.25 days, in hundredths
YearHundredths == 36525

\* age_years <= n
AgeBelow_Inclusive(days, n) == days * 100 <= n * YearHundredths

\* age_years < n, for age_years = days / 365.25
AgeBelow(days, n) == days * 100 < n * YearHundredths

check_cert_age(fields, now) ==
    LET days == DaysBetween(now, fields.cert_date)
    IN  IF fields.cert_date = NoneDate THEN NoneResult
        ELSE IF AgeBelow(days, 3)
        THEN CheckResult("expiration.cert_age", TRUE, "INFO", "Certificate age within 0-3 years.")
        ELSE IF AgeBelow(days, 4)
        THEN CheckResult("expiration.cert_age", FALSE, "SOFT_FLAG",
                         Get(CertAgeFlags, "3_to_4_years", "Renewal recommended within next year"))
        ELSE IF AgeBelow(days, 5)
        THEN CheckResult("expiration.cert_age", FALSE, "SOFT_FLAG",
                         Get(CertAgeFlags, "4_to_5_years", "Certificate aging; request updated cert"))
        ELSE CheckResult("expiration.cert_age", FALSE, "SOFT_FLAG",
                         Get(CertAgeFlags, "5_plus_years",
                             "Certificate is 5+ years old; best practice is to obtain updated documentation"))

----------------------------------------------------------------------------
(* validate.py: reasonableness checks *)

PlausibleCategories == {"GOVERNMENT", "NONPROFIT", "DIRECT_PAY"}

ImplausibleCategories == {"MANUFACTURING", "AGRICULTURE", "COMMON_CARRIER", "INDUSTRIAL_RD"}

\* reasonableness_rules.json, exemption_validity_for_saas: no entry overrides
\* a note or reason, so the defaults of the code are the messages
check_exemption_for_saas(fields, entity_type, state) ==
    LET category == derive_exemption_category(fields)
        state_upper == Upper(Strip(state))
    IN  IF category = "None" THEN NoneResult
        ELSE IF category \in PlausibleCategories
        THEN CheckResult("reasonableness.exemption_for_saas", TRUE, "INFO",
                         "Exemption category is generally plausible for SaaS.")
        ELSE IF category = "CONSTRUCTION"
        THEN CheckResult("reasonableness.exemption_for_saas", TRUE, "INFO",
                         "Construction claims are plausible for fleet SaaS but state-specific.")
        ELSE IF category = "RESALE"
        THEN CheckResult("reasonableness.exemption_for_saas", TRUE, "INFO",
                         "Resale claims require tiering review.")
        ELSE IF category \in ImplausibleCategories
        THEN CheckResult("reasonableness.exemption_for_saas", FALSE, "REASONABLENESS",
                         IF category = "COMMON_CARRIER" /\ state_upper # "" /\ state_upper # "OH"
                         THEN "Common carrier exemption is primarily an Ohio concept and is generally not valid for SaaS in "
                              \o state_upper \o "."
                         ELSE "Exemption category appears implausible for SaaS purchases.")
        ELSE CheckResult("reasonableness.exemption_for_saas", FALSE, "REASONABLENESS",
                         "Exemption category '" \o CategoryValue(category)
                         \o "' requires human review for SaaS reasonableness.")

\* tier_map of check_resale_tier, each tier with the patterns that
\* reasonableness_rules.json (resale_tiers) configures for it
TierMap ==
    << [label |-> "STRONG", passed |-> TRUE, severity |-> "INFO", patterns |-> <<"reseller", "distributor">>],
       [label |-> "PLAUSIBLE", passed |-> TRUE, severity |-> "INFO", patterns |-> <<"dealer", "leasing">>],
       [label |-> "WEAK", passed |-> FALSE, severity |-> "REASONABLENESS", patterns |-> <<"consulting">>],
       [label |-> "IMPLAUSIBLE", passed |-> FALSE, severity |-> "REASONABLENESS",
        patterns |-> <<"city of", "school">>] >>

\* " ".join(filter(None, [a, b]))
JoinNonEmpty(a, b) == IF a = "" THEN b ELSE IF b = "" THEN a ELSE a \o " " \o b

check_resale_tier(fields, entity_type) ==
    LET text == Lower(JoinNonEmpty(fields.business_type, fields.purchaser_name))
        Hit(k, j) == Contains(text, Lower(TierMap[k].patterns[j]))
        hits == {<<k, j>> \in (1..Len(TierMap)) \X (1..2) : j <= Len(TierMap[k].patterns) /\ Hit(k, j)}
        first == CHOOSE h \in hits : \A g \in hits : h[1] < g[1] \/ (h[1] = g[1] /\ h[2] <= g[2])
        tier == TierMap[first[1]]
    IN  IF derive_exemption_category(fields) # "RESALE" THEN NoneResult
        ELSE IF hits # {}
        THEN CheckResult("reasonableness.resale_tier", tier.passed, tier.severity,
                         "Resale tier=" \o tier.label \o " based on pattern '" \o tier.patterns[first[2]]
                         \o "' in purchaser profile; claim "
                         \o (IF tier.passed THEN "accepted" ELSE "flagged for review") \o ".")
        ELSE CheckResult("reasonableness.resale_tier", FALSE, "REASONABLENESS",
                         "Resale tier=WEAK by default (no known resale pattern matched); conservative human review required.")

GovEntities == {"FEDERAL_GOVERNMENT", "STATE_GOVERNMENT", "LOCAL_GOVERNMENT", "TRIBAL"}

NonprofitEntities == {"NONPROFIT_501C3", "EXEMPT_ORG_OTHER", "RELIGIOUS", "EDUCATIONAL"}

\* check_entity_exemption_match with no downgrade in member states
check_entity_exemption_match_NoDowngrade(fields, entity_type, state) ==
    LET category == derive_exemption_category(fields)
        gov_wrong_box == entity_type \in GovEntities /\ category \in {"MANUFACTURING", "AGRICULTURE"}
        mismatch == \/ gov_wrong_box
                    \/ entity_type \in NonprofitEntities /\ category = "RESALE"
                    \/ entity_type = "FOR_PROFIT" /\ category = "GOVERNMENT"
    IN  IF category = "None" THEN NoneResult
        ELSE IF ~mismatch
        THEN CheckResult("reasonableness.entity_exemption_match", TRUE, "INFO",
                         "Entity type and exemption category are not obviously mismatched.")
        ELSE CheckResult("reasonableness.entity_exemption_match", FALSE,
                         IF gov_wrong_box THEN "INFO" ELSE "REASONABLENESS",
                         "Good-faith documentation standard applies.")

check_entity_exemption_match(fields, entity_type, state) ==
    LET category == derive_exemption_category(fields)
        is_sst == Upper(Strip(state)) \in SstMemberStates
        gov_wrong_box == entity_type \in GovEntities /\ category \in {"MANUFACTURING", "AGRICULTURE"}
        mismatch_reason ==
            IF gov_wrong_box
            THEN "Government entity appears to have selected an inapplicable manufacturing/agriculture exemption box."
            ELSE IF entity_type \in NonprofitEntities /\ category = "RESALE"
            THEN "Nonprofit entity claiming resale is unusual and should be reviewed."
            ELSE IF entity_type = "FOR_PROFIT" /\ category = "GOVERNMENT"
            THEN "For-profit entity appears to claim a government exemption."
            ELSE ""
        sev == IF gov_wrong_box THEN "INFO" ELSE IF is_sst THEN "SOFT_FLAG" ELSE "REASONABLENESS"
    IN  IF category = "None" THEN NoneResult
        ELSE IF mismatch_reason = ""
        THEN CheckResult("reasonableness.entity_exemption_match", TRUE, "INFO",
                         "Entity type and exemption category are not obviously mismatched.")
        ELSE IF sev = "INFO"
        THEN CheckResult("reasonableness.entity_exemption_match", FALSE, "INFO",
                         mismatch_reason \o " Government status still supports exemption; note only.")
        ELSE CheckResult("reasonableness.entity_exemption_match", FALSE, sev,
                         mismatch_reason \o " "
                         \o (IF is_sst THEN "SST four-corners protections may reduce seller risk."
                             ELSE "Good-faith documentation standard applies."))

\* state_rules.json, taxability
Taxability ==
    [ TX |-> [taxable |-> TRUE, rate |-> "6.25% on 80%"],
      OH |-> [taxable |-> TRUE, rate |-> "5.75%"],
      NY |-> [taxable |-> TRUE, rate |-> "4%"],
      TN |-> [taxable |-> TRUE, rate |-> "7%"],
      PA |-> [taxable |-> TRUE, rate |-> "6%"],
      FL |-> [taxable |-> FALSE, note |-> "SaaS without tangible media is not taxed."],
      OR |-> [no_sales_tax |-> TRUE] ]

check_saas_taxability(state) ==
    LET state_upper == Upper(Strip(state))
        record == Get(Taxability, state_upper, <<>>)
    IN  IF Get(record, "no_sales_tax", FALSE)
        THEN CheckResult("info.saas_taxability", TRUE, "INFO", state_upper \o " has no sales tax.")
        ELSE IF "taxable" \in DOMAIN record /\ record["taxable"] = FALSE
        THEN CheckResult("info.saas_taxability", TRUE, "INFO",
                         "SaaS is not taxable in " \o state_upper
                         \o ". Certificate on file as insurance but may not be required."
                         \o (IF Get(record, "note", "") # "" THEN " " \o Get(record, "note", "") ELSE ""))
        ELSE IF "taxable" \in DOMAIN record /\ record["taxable"] = TRUE
        THEN CheckResult("info.saas_taxability", TRUE, "INFO",
                         "SaaS is taxable in " \o state_upper \o " at " \o Get(record, "rate", "state rate")
                         \o ". Certificate IS required for exempt transactions.")
        ELSE CheckResult("info.saas_taxability", TRUE, "INFO",
                         "SaaS taxability not found for " \o state_upper \o "; verify state treatment manually.")

----------------------------------------------------------------------------
(* validate.py: run_all_checks *)

\* [r for r in results if r is not None]
DropNone(results) == SelectSeq(results, LAMBDA r : r # NoneResult)

\* results after the completeness checks (lines 63-70)
CompletenessResults(fields, pathway, state) ==
    << check_purchaser_name(fields),
       check_purchaser_name_is_entity(fields),
       check_purchaser_address(fields, pathway),
       check_seller_name(fields, pathway),
       check_exemption_reason(fields, pathway),
       check_signature(fields, pathway),
       check_date(fields, pathway),
       check_exemption_state(fields, state) >>

\* what line 71 appends: the compound-failure check of the results so far
CompoundResult(results_so_far) == check_compound_failure(DropNone(results_so_far))

run_all_checks(fields, form_type, entity_type, pathway, state, now) ==
    LET completeness == CompletenessResults(fields, pathway, state)
        results ==
            completeness
            \o << CompoundResult(completeness) >>
            \o << check_form_correct_for_state(form_type, state),
                  check_mtc_resale_only(fields, form_type, state),
                  check_sst_member(form_type, state),
                  check_state_specific_requirements(fields, form_type, state) >>
            \o << check_expiration(fields, state, form_type, now),
                  check_future_date(fields, now),
                  check_cert_age(fields, now) >>
            \o << check_exemption_for_saas(fields, entity_type, state) >>
            \o (IF derive_exemption_category(fields) = "RESALE"
                THEN << check_resale_tier(fields, entity_type) >> ELSE <<>>)
            \o << check_entity_exemption_match(fields, entity_type, state),
                  check_saas_taxability(state) >>
    IN  DropNone(results)

----------------------------------------------------------------------------
(* classify.py *)

FEDERAL_INDICATORS ==
    << "United States", "U.S. Government", "US Government", "GSA",
       "Department of Defense", "Department of the", "Federal",
       "U.S. Army", "U.S. Navy", "U.S. Air Force", "U.S. Marine",
       "U.S. Coast Guard", "Department of Veterans", "USDA",
       "Department of Homeland", "Department of Energy",
       "Department of Justice", "Department of State",
       "Department of the Interior", "Department of Commerce",
       "Department of Labor", "Department of Transportation",
       "Environmental Protection Agency", "EPA", "NASA", "FEMA",
       "General Services Administration", "Bureau of",
       "National Park Service", "Forest Service",
       "Internal Revenue Service", "IRS",
       "Social Security Administration", "SSA",
       "Veterans Affairs", "VA Medical" >>

STATE_GOVERNMENT_INDICATORS ==
    << "State of", "Highway Patrol", "State Police",
       "State Department of", "State Board of",
       "Department of Transportation", "DOT",
       "Department of Corrections",
       "State University" >>

LOCAL_GOVERNMENT_INDICATORS ==
    << "City of", "County of", "Town of", "Township",
       "Village of", "Borough of", "Parish of",
       "Municipal", "Municipality", "District",
       "Fire Department", "Fire District", "ESD",
       "Emergency Services District",
       "Police Department", "Sheriff",
       "Water Authority", "Water District",
       "Sewer Authority", "Sewer District",
       "Transit Authority", "Transportation Authority",
       "School District", "Board of Education",
       "Independent School District", "ISD",
       "Public Library", "Library District",
       "Housing Authority", "Port Authority",
       "Flood Control District" >>

TRIBAL_INDICATORS ==
    << "Tribe", "Tribal", "Nation",
       "Indian Community", "Pueblo", "Reservation",
       "Tribal Enterprise", "Tribal Council",
       "Band of", "Rancheria" >>

EDUCATIONAL_INDICATORS ==
    << "University", "College", "Academy",
       "Institute of Technology", "Institute of",
       "School of" >>

NONPROFIT_INDICATORS ==
    << "501(c)(3)", "501c3", "nonprofit", "not-for-profit",
       "Foundation", "Association", "Society",
       "Charitable", "Charity" >>

RELIGIOUS_INDICATORS ==
    << "Church", "Temple", "Mosque", "Synagogue",
       "Diocese", "Ministry", "Cathedral",
       "Parish" >>

FOR_PROFIT_INDICATORS ==
    << "LLC", "Inc.", "Inc", "Corp.", "Corp", "Corporation",
       "Ltd.", "Ltd", "LP", "LLP", "Co.", "Company",
       "Enterprises", "Holdings", "Group" >>

LowerAll(indicators) == [k \in 1..Len(indicators) |-> Lower(indicators[k])]

\* the ind.lower() of every list, computed once
FederalLower == LowerAll(FEDERAL_INDICATORS)
StateLower == LowerAll(STATE_GOVERNMENT_INDICATORS)
LocalLower == LowerAll(LOCAL_GOVERNMENT_INDICATORS)
TribalContextLower == LowerAll(SelectSeq(TRIBAL_INDICATORS, LAMBDA i : i # "Nation"))
EducationalLower == LowerAll(EDUCATIONAL_INDICATORS)
NonprofitLower == LowerAll(NONPROFIT_INDICATORS)
ReligiousLower == LowerAll(RELIGIOUS_INDICATORS)
ForProfitLower == LowerAll(FOR_PROFIT_INDICATORS)

\* _contains_any(text, indicators), given text.lower() and the ind.lower() list
contains_any(lower_text, lower_indicators) ==
    \E k \in 1..Len(lower_indicators) : Contains(lower_text, lower_indicators[k])

\* the rule order of classify_entity, applied to the lower-cased source
ClassifyLower(lower) ==
    IF contains_any(lower, FederalLower) THEN "FEDERAL_GOVERNMENT"
    ELSE IF Contains(lower, "state university") THEN "STATE_GOVERNMENT"
    ELSE IF contains_any(lower, StateLower) THEN "STATE_GOVERNMENT"
    ELSE IF Contains(lower, "parish of") THEN "LOCAL_GOVERNMENT"
    ELSE IF contains_any(lower, LocalLower) THEN "LOCAL_GOVERNMENT"
    ELSE IF contains_any(lower, TribalContextLower)
            \/ (Contains(lower, "nation") /\ Contains(lower, "tribal")) THEN "TRIBAL"
    ELSE IF contains_any(lower, EducationalLower) THEN "EDUCATIONAL"
    ELSE IF contains_any(lower, NonprofitLower) THEN "NONPROFIT_501C3"
    ELSE IF Contains(lower, "parish") /\ contains_any(lower, ReligiousLower) THEN "RELIGIOUS"
    ELSE IF contains_any(lower, ReligiousLower) THEN "RELIGIOUS"
    ELSE IF contains_any(lower, ForProfitLower) THEN "FOR_PROFIT"
    ELSE "UNKNOWN"

classify_entity(fields) ==
    ClassifyLower(Lower(fields.purchaser_name \o " " \o fields.raw_text))

\* form_templates.json, entity_form_incompatible.rules
IncompatibleRules ==
    << [ state |-> "NY", form |-> "NY_ST_119_1",
         entity_types |-> {"FEDERAL_GOVERNMENT", "STATE_GOVERNMENT", "LOCAL_GOVERNMENT"},
         message |-> "Government entities cannot use ST-119.1" ] >>

RuleApplies_AnyForm(rule, normalized_state, entity_type, form_type) ==
    /\ Upper(rule.state) = normalized_state
    /\ entity_type \in rule.entity_types

\* lines 140-145: the three tests a rule passes to report an incompatibility
RuleApplies(rule, normalized_state, entity_type, form_type) ==
    /\ Upper(rule.state) = normalized_state
    /\ rule.form = form_type
    /\ entity_type \in rule.entity_types

\* the function over the rules that load_config("form_templates.json") gave it;
\* returns <<compatible, message>>; a None message is ""
compatibility_under(rules, state, entity_type, form_type) ==
    LET normalized_state == Upper(Strip(state))
        matching == SelectSeq(rules, LAMBDA rule : RuleApplies(rule, normalized_state, entity_type, form_type))
    IN  IF Len(matching) > 0 THEN <<FALSE, matching[1].message>> ELSE <<TRUE, "">>

check_entity_form_compatibility(state, entity_type, form_type) ==
    compatibility_under(IncompatibleRules, state, entity_type, form_type)

route_to_pathway_EntityAware(form_type, entity_type, fields) ==
    IF form_type \in FederalForms \/ entity_type = "FEDERAL_GOVERNMENT" THEN "FEDERAL_EXEMPTION"
    ELSE IF form_type \in {"MTC_UNIFORM", "SST_F0003"} THEN "MULTI_STATE_UNIFORM"
    ELSE "STANDARD_SELF_COMPLETED"

route_to_pathway(form_type, entity_type, fields) ==
    IF form_type \in FederalForms THEN "FEDERAL_EXEMPTION"
    ELSE IF form_type \in {"MD_GOV_1"} THEN "GOV_CARD_NO_EXPIRY"
    ELSE IF form_type \in {"MD_NONGOV_1", "FL_DR_14"} THEN "GOV_CARD_WITH_EXPIRY"
    ELSE IF form_type \in {"IL_E99", "IL_STAX_70", "TN_GOV", "TN_EXEMPT_ORG", "NY_GOV_LETTER"}
    THEN "STATE_ISSUED_CERT"
    ELSE IF form_type \in {"OH_DIRECT_PAY", "WA_RESELLER"} THEN "SPECIAL_PERMIT"
    ELSE IF form_type \in {"MTC_UNIFORM", "SST_F0003"} THEN "MULTI_STATE_UNIFORM"
    ELSE "STANDARD_SELF_COMPLETED"

----------------------------------------------------------------------------
(* validate.py: find_duplicates, over the JSON form of the results *)

\* re.sub(r"[^a-z0-9\s]", "", value.lower())
RECURSIVE KeepNameChars(_)
KeepNameChars(s) ==
    IF Len(s) = 0 THEN ""
    ELSE LET c == CharAt(s, 1)
             kept == IF InChars(c, LowerChars) \/ IsDigit(c) \/ IsSpace(c) THEN c ELSE ""
         IN  kept \o KeepNameChars(SubSeq(s, 2, Len(s)))

\* re.sub(r"\s+", " ", cleaned)
RECURSIVE CollapseSpaces(_)
CollapseSpaces(s) ==
    IF Len(s) = 0 THEN ""
    ELSE IF IsSpace(CharAt(s, 1))
    THEN " " \o CollapseSpaces(LStrip(s))
    ELSE CharAt(s, 1) \o CollapseSpaces(SubSeq(s, 2, Len(s)))

normalize_name(value) ==
    IF value = "" THEN "" ELSE Strip(CollapseSpaces(KeepNameChars(Lower(value))))

fingerprint(item) ==
    LET customer == normalize_name(item.customer_name)
        state == Upper(Strip(item.state))
        exemption_category == Lower(Strip(item.exemption_category))
        cert_date == IF item.cert_date # "" THEN item.cert_date ELSE item.expiration_date
        form_type == Strip(item.form_type)
    IN  IF cert_date # ""
        THEN customer \o "|" \o state \o "|" \o exemption_category \o "|" \o cert_date
        ELSE customer \o "|" \o state \o "|" \o form_type

\* the characters of ISO dates and timestamps, in code point order
DateChars == "-0123456789:T"

\* a < b on str
RECURSIVE StrLess(_, _)
StrLess(a, b) ==
    IF Len(b) = 0 THEN FALSE
    ELSE IF Len(a) = 0 THEN TRUE
    ELSE IF CharAt(a, 1) = CharAt(b, 1) THEN StrLess(SubSeq(a, 2, Len(a)), SubSeq(b, 2, Len(b)))
    ELSE IndexIn(CharAt(a, 1), DateChars) < IndexIn(CharAt(b, 1), DateChars)

sort_key_ValidatedAt(item) == item.validated_at

sort_key(item) == IF item.cert_date # "" THEN item.cert_date ELSE item.validated_at

\* sorted(bucket, key=sort_key): equal keys keep their order
RECURSIVE InsertSorted(_, _)
InsertSorted(item, sorted) ==
    IF Len(sorted) > 0 /\ StrLess(sort_key(item), sort_key(sorted[Len(sorted)]))
    THEN InsertSorted(item, SubSeq(sorted, 1, Len(sorted) - 1)) \o <<sorted[Len(sorted)]>>
    ELSE sorted \o <<item>>

RECURSIVE Sorted(_)
Sorted(bucket) ==
    IF Len(bucket) = 0 THEN <<>>
    ELSE InsertSorted(bucket[Len(bucket)], Sorted(SubSeq(bucket, 1, Len(bucket) - 1)))

\* str(item.get("cert_id") or item.get("avalara_cert_id") or "unknown")
item_id(item) ==
    IF item.cert_id # "" THEN item.cert_id
    ELSE IF item.avalara_cert_id # "" THEN item.avalara_cert_id
    ELSE "unknown"

\* the pairs one bucket contributes
bucket_duplicates(bucket) ==
    IF Len(bucket) < 2 THEN <<>>
    ELSE LET sorted_bucket == Sorted(bucket)
             canonical_id == item_id(sorted_bucket[1])
         IN  [k \in 1..(Len(sorted_bucket) - 1) |-> <<canonical_id, item_id(sorted_bucket[k + 1])>>]

\* buckets.values(): the buckets in the order their fingerprints first occur
RECURSIVE duplicates_from(_, _)
duplicates_from(results, i) ==
    IF i > Len(results) THEN <<>>
    ELSE LET fp == fingerprint(results[i])
             first == \A j \in 1..(i - 1) : fingerprint(results[j]) # fp
             bucket == SelectSeq(results, LAMBDA item : fingerprint(item) = fp)
         IN  (IF first THEN bucket_duplicates(bucket) ELSE <<>>) \o duplicates_from(results, i + 1)

find_duplicates(results) == duplicates_from(results, 1)

----------------------------------------------------------------------------
(* disposition.py *)

Failed(checks, severity) == SelectSeq(checks, LAMBDA c : c.severity = severity /\ ~c.passed)

SoftFlagPenalty == 3
ReasonFlagPenalty == 10
LowExtractionPenalty == 15
UnknownFormPenalty == 20
UnknownEntityPenalty == 10
LowExtractionThreshold == 80

Max(a, b) == IF a >= b THEN a ELSE b

\* the ladder with the reasonableness rung tested before the hard-fail rung
DispositionOf_ReasonFirst(hard_fails, reason_flags, soft_flags) ==
    IF Len(reason_flags) > 0 THEN "NEEDS_HUMAN_REVIEW"
    ELSE IF Len(hard_fails) > 0 THEN "NEEDS_CORRECTION"
    ELSE IF Len(soft_flags) > 0 THEN "VALIDATED_WITH_NOTES"
    ELSE "VALIDATED"

\* the disposition ladder of determine_disposition (lines 25-32)
DispositionOf(hard_fails, reason_flags, soft_flags) ==
    IF Len(hard_fails) > 0 THEN "NEEDS_CORRECTION"
    ELSE IF Len(reason_flags) > 0 THEN "NEEDS_HUMAN_REVIEW"
    ELSE IF Len(soft_flags) > 0 THEN "VALIDATED_WITH_NOTES"
    ELSE "VALIDATED"

\* the confidence arithmetic without the floor at 0
ConfidenceOf_NoFloor(soft_flags, reason_flags, fields, form_type, entity_type) ==
    100 - SoftFlagPenalty * Len(soft_flags) - ReasonFlagPenalty * Len(reason_flags)
        - (IF fields.extraction_confidence < LowExtractionThreshold THEN LowExtractionPenalty ELSE 0)
        - (IF form_type = "UNKNOWN" THEN UnknownFormPenalty ELSE 0)
        - (IF entity_type = "UNKNOWN" THEN UnknownEntityPenalty ELSE 0)

\* the confidence arithmetic of determine_disposition (lines 34-44)
ConfidenceOf(soft_flags, reason_flags, fields, form_type, entity_type) ==
    Max(0, 100 - SoftFlagPenalty * Len(soft_flags) - ReasonFlagPenalty * Len(reason_flags)
           - (IF fields.extraction_confidence < LowExtractionThreshold THEN LowExtractionPenalty ELSE 0)
           - (IF form_type = "UNKNOWN" THEN UnknownFormPenalty ELSE 0)
           - (IF entity_type = "UNKNOWN" THEN UnknownEntityPenalty ELSE 0))

\* returns <<disposition, confidence>>
determine_disposition(checks, fields, form_type, entity_type) ==
    LET hard_fails == Failed(checks, "HARD_FAIL")
        soft_flags == Failed(checks, "SOFT_FLAG")
        reason_flags == Failed(checks, "REASONABLENESS")
    IN  << DispositionOf(hard_fails, reason_flags, soft_flags),
           ConfidenceOf(soft_flags, reason_flags, fields, form_type, entity_type) >>

get_seller_protection(state) ==
    LET normalized_state == Upper(Strip(state))
    IN  IF normalized_state \in {"FEDERAL", "US", "USA"} THEN "FEDERAL_SUPREMACY"
        ELSE IF normalized_state \in SstMemberStates THEN "SST_FOUR_CORNERS"
        ELSE "GOOD_FAITH"

\* an absent tier is "None"
find_resale_tier(checks) ==
    LET tier_checks == SelectSeq(checks, LAMBDA c : c.check_name = "reasonableness.resale_tier")
        TierOf(c) ==
            LET msg == Upper(c.message)
            IN  IF Contains(msg, "TIER=STRONG") THEN "STRONG"
                ELSE IF Contains(msg, "TIER=PLAUSIBLE") THEN "PLAUSIBLE"
                ELSE IF Contains(msg, "TIER=WEAK") THEN "WEAK"
                ELSE IF Contains(msg, "TIER=IMPLAUSIBLE") THEN "IMPLAUSIBLE"
                ELSE "None"
        tiered == SelectSeq(tier_checks, LAMBDA c : TierOf(c) # "None")
    IN  IF Len(tiered) > 0 THEN TierOf(tiered[1]) ELSE "None"

RECURSIVE JoinSemicolon(_)
\* "; ".join(seq)
JoinSemicolon(seq) ==
    IF Len(seq) = 0 THEN ""
    ELSE IF Len(seq) = 1 THEN seq[1]
    ELSE seq[1] \o "; " \o JoinSemicolon(Tail(seq))

Messages(checks) == [k \in 1..Len(checks) |-> checks[k].message]

\* the ValidationResult; an unset Optional[str] is "None"
build_validation_result(fields, form_type, entity_type, pathway, state, checks, disposition, confidence_score) ==
    LET hard_fails == Failed(checks, "HARD_FAIL")
        soft_flags == Failed(checks, "SOFT_FLAG")
        reason_flags == Failed(checks, "REASONABLENESS")
        rule_entry == IF state \in DOMAIN ExpirationRules THEN ExpirationRules[state]
                      ELSE IF "DEFAULT" \in DOMAIN ExpirationRules THEN ExpirationRules["DEFAULT"]
                      ELSE <<>>
    IN  [ customer_name |-> IF fields.purchaser_name # "" THEN fields.purchaser_name ELSE "Unknown Customer",
          state |-> state,
          form_type |-> form_type,
          entity_type |-> entity_type,
          pathway |-> pathway,
          exemption_category |-> fields.exemption_category,
          seller_protection_standard |-> get_seller_protection(state),
          disposition |-> disposition,
          confidence_score |-> confidence_score,
          checks |-> checks,
          hard_fails |-> hard_fails,
          soft_flags |-> soft_flags,
          reasonableness_flags |-> reason_flags,
          expiration_date |-> fields.expiration_date,
          expiration_rule |-> Get(rule_entry, "rule", "None"),
          renewal_action |-> Get(rule_entry, "note", "None"),
          resale_tier |-> find_resale_tier(checks),
          extraction_confidence |-> fields.extraction_confidence,
          correction_email_needed |-> Len(hard_fails) > 0,
          correction_items |-> Messages(hard_fails),
          human_review_needed |-> Len(reason_flags) > 0,
          human_review_reason |-> IF Len(reason_flags) > 0 THEN JoinSemicolon(Messages(reason_flags)) ELSE "None",
          is_duplicate |-> FALSE,
          duplicate_of |-> "None",
          cert_id |-> "",
          avalara_cert_id |-> "" ]

----------------------------------------------------------------------------
(* pipeline.py *)

\* ExtractedFields(), every field at its default
EmptyFields ==
    ExtractedFields("", "", "", "", "", "None", "None", NoneDate, NoneDate, "", "", "", 0, "UNKNOWN", <<>>)

LlmAcceptThreshold == 50

Min(a, b) == IF a <= b THEN a ELSE b

FallbackCap == 49

\* extract_llm.py: the local extraction of the PDF's text, returned when the
\* vision extraction raised, with its confidence held under the threshold
fallback_regex_from_pdf(raw_text, regex) ==
    [ regex EXCEPT !.raw_text = raw_text,
                   !.extraction_confidence = Min(Max(0, @), FallbackCap) ]

\* extract_llm.py: the fields of the service's answer, or the fallback
extract_fields_via_llm(raised, answer, raw_text, regex) ==
    IF raised THEN fallback_regex_from_pdf(raw_text, regex) ELSE answer

\* _resolve_state without the sentinel
resolve_state_NoSentinel(state, extracted_state) ==
    Upper(Strip(IF state # "" THEN state ELSE extracted_state))

\* (state or extracted_state or "").strip().upper() or "UNKNOWN"
resolve_state(state, extracted_state) ==
    LET chosen == IF state # "" THEN state ELSE extracted_state
        normalized == Upper(Strip(chosen))
    IN  IF normalized # "" THEN normalized ELSE "UNKNOWN"

\* lines 25-37: the extraction that is used, with the ingest values kept
\* where it left them unset
SelectParsed_AlwaysExternal(ingest, llm, regex) ==
    [ llm EXCEPT
        !.signature_present = IF @ = "None" THEN ingest.signature_present ELSE @,
        !.raw_text = IF @ = "" THEN ingest.raw_text ELSE @,
        !.extraction_confidence = Max(@, ingest.extraction_confidence) ]

SelectParsed_ChosenConfidence(ingest, llm, regex) ==
    LET chosen == IF llm.extraction_confidence >= LlmAcceptThreshold THEN llm ELSE regex
    IN  [ chosen EXCEPT
            !.signature_present = IF @ = "None" THEN ingest.signature_present ELSE @,
            !.raw_text = IF @ = "" THEN ingest.raw_text ELSE @ ]

SelectParsed(ingest, llm, regex) ==
    LET chosen == IF llm.extraction_confidence >= LlmAcceptThreshold THEN llm ELSE regex
    IN  [ chosen EXCEPT
            !.signature_present = IF @ = "None" THEN ingest.signature_present ELSE @,
            !.raw_text = IF @ = "" THEN ingest.raw_text ELSE @,
            !.extraction_confidence = Max(@, ingest.extraction_confidence) ]

\* lines 47-57: the check list with the compatibility failure put first
InsertCompatibility(checks, compatibility) ==
    IF ~compatibility[1] /\ compatibility[2] # ""
    THEN << CheckResult("classify.entity_form_compatibility", FALSE, "HARD_FAIL", compatibility[2]) >> \o checks
    ELSE checks

validate_certificate(ingest, llm, regex, state, now) ==
    LET parsed == SelectParsed(ingest, llm, regex)
        form_type == parsed.form_type_detected
        entity_type == classify_entity(parsed)
        resolved_state == resolve_state(state, parsed.purchaser_state)
        compatibility == check_entity_form_compatibility(resolved_state, entity_type, form_type)
        pathway == route_to_pathway(form_type, entity_type, parsed)
        checks == InsertCompatibility(
                      run_all_checks(parsed, form_type, entity_type, pathway, resolved_state, now),
                      compatibility)
        outcome == determine_disposition(checks, parsed, form_type, entity_type)
    IN  build_validation_result(parsed, form_type, entity_type, pathway, resolved_state,
                                checks, outcome[1], outcome[2])

NoResult == [disposition |-> "None"]

NoArg == [op |-> "None"]

----------------------------------------------------------------------------
(* parse.py: what extract_fields_regex makes of the signature and the    *)
(* certificate date                                                       *)

\* raw_text.splitlines(), for texts whose line breaks are "\n"
RECURSIVE SplitLines(_)
SplitLines(s) ==
    IF Len(s) = 0 THEN <<>>
    ELSE IF \E i \in 1..Len(s) : CharAt(s, i) = "\n"
    THEN LET n == CHOOSE i \in 1..Len(s) : CharAt(s, i) = "\n" /\ \A j \in 1..(i - 1) : CharAt(s, j) # "\n"
         IN  <<SubSeq(s, 1, n - 1)>> \o SplitLines(SubSeq(s, n + 1, Len(s)))
    ELSE <<s>>

\* every character outside [a-z0-9] becomes a space
RECURSIVE BlankNonAlnum(_)
BlankNonAlnum(s) ==
    IF Len(s) = 0 THEN ""
    ELSE LET c == CharAt(s, 1)
         IN  (IF InChars(c, LowerChars) \/ IsDigit(c) THEN c ELSE " ") \o BlankNonAlnum(SubSeq(s, 2, Len(s)))

\* re.sub(r"[^a-z0-9]+", " ", text.lower()).strip()
normalize_label_text(text) == Strip(CollapseSpaces(BlankNonAlnum(Lower(text))))

line_has_label(line, labels) ==
    \E k \in 1..Len(labels) : Contains(normalize_label_text(line), normalize_label_text(labels[k]))

SignatureLabels == <<"Title", "Signature">>

DigitValue(c) == IndexIn(c, DigitChars) - 1

\* the date written mm/dd/yyyy at position i, NoneDate when there is none or
\* strptime rejects it
DateAt(text, i) ==
    LET Digit(k) == i + k <= Len(text) /\ IsDigit(CharAt(text, i + k))
        Value(k) == DigitValue(CharAt(text, i + k))
        shaped == /\ \A k \in {0, 1, 3, 4, 6, 7, 8, 9} : Digit(k)
                  /\ CharAt(text, i + 2) = "/" /\ CharAt(text, i + 5) = "/"
        m == 10 * Value(0) + Value(1)
        d == 10 * Value(3) + Value(4)
        y == 1000 * Value(6) + 100 * Value(7) + 10 * Value(8) + Value(9)
    IN  IF shaped /\ y >= 1 /\ m \in 1..12 /\ d >= 1 /\ d <= DaysInMonth(y, m) THEN Date(y, m, d) ELSE NoneDate

FirstDateYear == 2010

\* _find_date_in_text on a text that holds at most one date, written
\* mm/dd/yyyy: the date, if it lies from 2010-01-01 to today
find_date_in_text(raw_text, now) ==
    LET found == { i \in 1..Len(raw_text) :
                     /\ DateAt(raw_text, i) # NoneDate
                     /\ ToOrdinal(Date(FirstDateYear, 1, 1)) <= ToOrdinal(DateAt(raw_text, i))
                     /\ ToOrdinal(DateAt(raw_text, i)) <= ToOrdinal(now) }
    IN  IF found = {} THEN NoneDate
        ELSE DateAt(raw_text, CHOOSE i \in found : \A j \in found : i <= j)

\* the signature flag from the labels alone
signature_present_LabelsOnly(raw_text, cert_date) ==
    IF \E k \in 1..Len(SplitLines(raw_text)) : line_has_label(SplitLines(raw_text)[k], SignatureLabels)
    THEN "True" ELSE "False"

\* lines 394-396: signature_hit or fields.cert_date is not None
signature_present(raw_text, cert_date) ==
    LET lines == SplitLines(raw_text)
        signature_hit == \E k \in 1..Len(lines) : line_has_label(lines[k], SignatureLabels)
    IN  IF signature_hit \/ cert_date # NoneDate THEN "True" ELSE "False"

\* parse_certificate on a text in which the labelled fields read as given
extract_fields_regex(raw_text, form_type, purchaser_name, now) ==
    LET cert_date == find_date_in_text(raw_text, now)
    IN  [ EmptyFields EXCEPT !.raw_text = raw_text,
                             !.form_type_detected = form_type,
                             !.purchaser_name = purchaser_name,
                             !.cert_date = cert_date,
                             !.signature_present = signature_present(raw_text, cert_date) ]

----------------------------------------------------------------------------
(* Inputs of validate_certificate *)

\* extract_certificate sets the text, the signature flag and the confidence
Ingest(text, sig, conf) ==
    [ EmptyFields EXCEPT !.raw_text = text, !.signature_present = sig, !.extraction_confidence = conf ]

\* the regex extraction of a text no label of which is recognised
RegexBare(text) ==
    [ EmptyFields EXCEPT !.raw_text = text, !.signature_present = "False" ]

Run(now, state, ingest, llm, regex) ==
    [ today |-> now, state_arg |-> state, extracted |-> ingest, llm_fields |-> llm, regex_fields |-> regex ]

\* a run in which the vision extraction is accepted
LlmRun(now, state, sig, fields) ==
    Run(now, state, Ingest(fields.raw_text, sig, 100), fields, RegexBare(fields.raw_text))

Today == Date(2026, 3, 1)

LeapToday == Date(2028, 2, 29)

TexasText == "Texas Sales and Use Tax Exemption Certification 01-339"

GoodAddress == "123 Main St Houston TX 77001"

\* llm signature_present, ingest signature_present
SignaturePairs == { <<"None", "True">>, <<"None", "False">>, <<"True", "False">>, <<"False", "True">> }

\* the Texas 01-339 certificate of Waller Harris ESD 200, submitted for TX
TexasRuns ==
    { LlmRun(Today, "TX", sg[2],
             ExtractedFields("Waller Harris ESD 200", address, "", seller, reason, category, sg[1],
                             cdate, NoneDate, "", "", text, 90, "TX_01_339", <<"TX">>)) :
        address \in {"", "n/a", GoodAddress},
        seller \in {"", "Fleetio, Inc.", "Acme Software", "Vendor"},
        reason \in {"", "Government services", "Resale"},
        category \in {"None", "GOVERNMENT"},
        sg \in SignaturePairs,
        cdate \in {NoneDate, Date(2025, 1, 15), Date(2019, 6, 1), Date(2027, 1, 1)},
        text \in {TexasText, "State of Texas 01-339"} }

\* certificates with defects in several groups of checks
DefectRuns ==
    { LlmRun(Today, state, sig,
             ExtractedFields(name, address, "", seller, "Government agency", "None", "None",
                             cdate, NoneDate, "", "", "", 90, form, <<>>)) :
        state \in {"OH", "NY", "TX", "PA", ""},
        sig \in {"True", "False"},
        name \in {"", "Donna Miller", "City of Albany"},
        address \in {"", GoodAddress},
        seller \in {"", "Fleetio"},
        cdate \in {NoneDate, Date(2025, 1, 15), Date(2027, 1, 1)},
        form \in {"TX_01_339", "MTC_UNIFORM", "SST_F0003", "NY_ST_119_1", "MD_GOV_1"} }

\* certificate dates 0, 1095, 1096, 1460, 1461, 1826, 1827 and 2200 days before
\* the day of the run, and one after it
AgeDates(now) ==
    IF now = Today
    THEN { Date(2026, 3, 1), Date(2023, 3, 2), Date(2023, 3, 1), Date(2022, 3, 2), Date(2022, 3, 1),
           Date(2021, 3, 1), Date(2021, 2, 28), Date(2020, 2, 21), Date(2026, 3, 2) }
    ELSE { Date(2028, 2, 29), Date(2025, 3, 1), Date(2025, 2, 28), Date(2024, 3, 1), Date(2024, 2, 29),
           Date(2023, 3, 1), Date(2023, 2, 28), Date(2022, 2, 20), Date(2028, 3, 1) }

\* certificates of every age under every kind of expiration rule
AgeRunsOn(now) ==
    { LlmRun(now, fs[2], "True",
             ExtractedFields("City of Albany", GoodAddress, "", "Fleetio", "Government agency", "GOVERNMENT",
                             "True", cdate, edate, "", "", "", 90, fs[1], <<>>)) :
        fs \in { <<"TX_01_339", "TX">>, <<"UNKNOWN", "PA">>, <<"UNKNOWN", "AL">>, <<"FL_DR_14", "FL">>,
                 <<"MD_GOV_1", "MD">>, <<"UNKNOWN", "">>, <<"FEDERAL_SF_1094", "AL">> },
        cdate \in AgeDates(now) \cup {NoneDate},
        edate \in {NoneDate, Date(2026, 1, 1), Date(2026, 5, 30), Date(2026, 5, 31), Date(2030, 1, 1)} }

AgeRuns == AgeRunsOn(Today) \cup AgeRunsOn(LeapToday)

\* what the two extractors can disagree on
PathRuns ==
    { Run(Today, state, Ingest(text, isig, iconf),
          ExtractedFields("City of Albany", GoodAddress, lstate, "Fleetio", "Government agency", "GOVERNMENT",
                          lsig, Date(2025, 1, 15), NoneDate, "", "", ltext, lconf, "NY_GOV_LETTER", <<>>),
          [ RegexBare(text) EXCEPT !.purchaser_name = "Donna Miller", !.signature_present = rsig,
                                   !.extraction_confidence = rconf ]) :
        state \in {"", " ny "},
        text \in {"", "Exemption letter"},
        isig \in {"True", "False"},
        iconf \in {0, 85},
        lstate \in {"", "NY"},
        lsig \in {"None", "True"},
        ltext \in {"", "New York letter"},
        lconf \in {0, 49, 50, 95},
        rsig \in {"False"},
        rconf \in {98} }

\* overrides and extracted purchaser states that are absent, blank or given
JurisdictionRuns ==
    { LlmRun(Today, state, "True",
             ExtractedFields("City of Albany", GoodAddress, lstate, "Fleetio", "Government agency", "GOVERNMENT",
                             "True", Date(2025, 1, 15), NoneDate, "", "", "", 90, "UNKNOWN", states)) :
        state \in {"", " ", "tx"},
        lstate \in {"", " ", "TX", "ny"},
        states \in {<<>>, <<"TX">>} }

\* documents the vision service gives nothing for, read by the local extraction
LocalRuns ==
    { Run(Today, "TX", Ingest(text, isig, 85), EmptyFields, extract_fields_regex(text, form, name, Today)) :
        text \in { "", "Exemption letter", "Untitled form", "Purchaser: City of Albany\nSignature: J. Doe",
                   "Signed 01/15/2025", "Date: 13/45/2025", "Date: 01/15/2031" },
        isig \in {"True", "False"},
        form \in {"UNKNOWN", "TX_01_339", "MD_GOV_1"},
        name \in {"", "City of Albany"} }

Runs == TexasRuns \cup DefectRuns \cup AgeRuns \cup PathRuns \cup JurisdictionRuns \cup LocalRuns

----------------------------------------------------------------------------
(* Arguments of the functions applied on their own *)

MaxChecks == 3
MaxPad == 10
MaxHardPad == 2
MaxNameTokens == 3

\* one check result of every kind that the aggregation tells apart
CheckKinds ==
    { CheckResult("check.failed", FALSE, severity, "") : severity \in CheckSeverity }
    \cup { CheckResult("check.passed", TRUE, "INFO", ""), CheckResult("check.passed", TRUE, "HARD_FAIL", "") }

CheckLists == UNION { [1..n -> CheckKinds] : n \in 0..MaxChecks }

\* k failed results of one severity
Repeat(k, severity) == [i \in 1..k |-> CheckResult("check.failed", FALSE, severity, "")]

FlagPads == { Repeat(k, "REASONABLENESS") : k \in 1..MaxPad } \cup { Repeat(k, "SOFT_FLAG") : k \in 1..MaxPad }

DispositionLists ==
    CheckLists \cup { pad \o list : pad \in FlagPads, list \in { l \in CheckLists : Len(l) <= 1 } }

DispositionCalls ==
    { [ op |-> "determine_disposition", checks |-> checks,
        fields |-> [EmptyFields EXCEPT !.extraction_confidence = conf],
        form_type |-> form_type, entity_type |-> entity_type ] :
        checks \in DispositionLists, conf \in {79, 80},
        form_type \in {"UNKNOWN", "TX_01_339"}, entity_type \in {"UNKNOWN", "FOR_PROFIT"} }

CompoundCalls ==
    { [ op |-> "check_compound_failure", previous_results |-> Repeat(k, "HARD_FAIL") \o list ] :
        k \in 0..MaxHardPad, list \in CheckLists }

MtcCalls ==
    { [ op |-> "check_mtc_resale_only",
        fields |-> [EmptyFields EXCEPT !.exemption_reason = reason, !.exemption_category = category,
                                       !.tax_id = tax_id, !.raw_text = text],
        form_type |-> form_type, state |-> state ] :
        reason \in {"", "Resale", "Government agency", "nonprofit"},
        category \in {"None", "RESALE", "GOVERNMENT"},
        tax_id \in {"", "TN-123456"},
        text \in {"", "PA 12345678"},
        form_type \in {"MTC_UNIFORM", "SST_F0003", "TX_01_339", "UNKNOWN"},
        state \in {"TN", " tn ", "NY", "TX", "PA", "MD", ""} }

SstCalls ==
    { [ op |-> "check_sst_member", form_type |-> form_type, state |-> state ] :
        form_type \in FormType, state \in {"OH", " oh", "TX", "ny", "WA", "UNKNOWN", ""} }

NameTokens == {"Donna", "Miller", "donna", "O'Brien", "J.", "Acme", "3M", "Church", "Nation", "tribal"}

RECURSIVE JoinSpace(_)
JoinSpace(seq) ==
    IF Len(seq) = 0 THEN ""
    ELSE IF Len(seq) = 1 THEN seq[1]
    ELSE seq[1] \o " " \o JoinSpace(Tail(seq))

Names ==
    { JoinSpace(tokens) : tokens \in UNION { [1..n -> NameTokens] : n \in 0..MaxNameTokens } }
    \cup { "  ", " Donna  Miller ", "Donna Marie Miller Smith", "Parish of St. Tammany",
           "First Baptist Church Parish Council", "Cherokee Nation", "Grace Parish Church",
           "Navajo Nation Tribal Utility", "Ohio State University", "Springfield Academy Foundation" }

NameCalls ==
    { [ op |-> "check_purchaser_name_is_entity", fields |-> [EmptyFields EXCEPT !.purchaser_name = name] ] :
        name \in Names }

ClassifyCalls ==
    { [ op |-> "classify_entity",
        fields |-> [EmptyFields EXCEPT !.purchaser_name = name, !.raw_text = text] ] :
        name \in Names, text \in {"", "Exemption certificate"} }

FormStateCalls ==
    { [ op |-> "check_form_correct_for_state", form_type |-> form_type, state |-> state ] :
        form_type \in FormType, state \in {"", " ", "TX", "tx", " ny ", "NY", "MD", "DC", "UNKNOWN"} }

ExemptionMatchCalls ==
    { [ op |-> "check_entity_exemption_match",
        fields |-> [EmptyFields EXCEPT !.exemption_reason = reason, !.exemption_category = category],
        entity_type |-> entity_type, state |-> state ] :
        reason \in {"", "Resale"},
        category \in {"None", "RESALE", "GOVERNMENT", "MANUFACTURING", "AGRICULTURE", "NONPROFIT"},
        entity_type \in EntityType,
        state \in {"TX", "OH", " oh "} }

RouteCalls ==
    { [ op |-> "route_to_pathway", form_type |-> form_type, entity_type |-> entity_type,
        fields |-> [EmptyFields EXCEPT !.purchaser_name = name] ] :
        form_type \in FormType, entity_type \in EntityType, name \in {"", "City of Albany"} }

\* rule lists a configuration can hold: none, the New York rule, the same
\* rule keyed in lower case, and the New York rule behind a Texas rule
RuleTables ==
    { <<>>,
      IncompatibleRules,
      << [IncompatibleRules[1] EXCEPT !.state = "ny"] >>,
      << [ state |-> "tx", form |-> "TX_01_339", entity_types |-> {"FOR_PROFIT"},
           message |-> "Businesses cannot use 01-339 for resale" ] >> \o IncompatibleRules }

CompatibilityCalls ==
    { [ op |-> "check_entity_form_compatibility", rules |-> rules, state |-> state,
        entity_type |-> entity_type, form_type |-> form_type ] :
        rules \in RuleTables,
        state \in {"NY", "ny", "Ny", "TX", ""},
        entity_type \in EntityType,
        form_type \in {"NY_ST_119_1", "NY_ST_120", "TX_01_339", "UNKNOWN"} }

MaxBatch == 4

\* results as report.py hands them over; an absent or None entry is ""
ResultItem(customer_name, state, exemption_category, cert_date, expiration_date, form_type, validated_at) ==
    [ cert_id |-> "", avalara_cert_id |-> "", customer_name |-> customer_name, state |-> state,
      exemption_category |-> exemption_category, cert_date |-> cert_date,
      expiration_date |-> expiration_date, form_type |-> form_type, validated_at |-> validated_at ]

ResultItems ==
    { ResultItem("Acme, LLC", "TX", "Resale", "2024-01-01", "", "TX_01_339", "2026-03-01T10:00:00"),
      ResultItem("Acme LLC", " tx", "resale", "2024-01-01", "2027-01-01", "MTC_UNIFORM", "2025-01-01T09:00:00"),
      ResultItem(" ACME  llc ", "TX", "RESALE", "", "2024-01-01", "TX_01_339", "2025-06-01T12:30:00"),
      ResultItem("Acme LLC", "TX", "Resale", "", "", "TX_01_339", "2026-03-01T10:00:00"),
      ResultItem("acme llc", "tx", "", "", "", "TX_01_339", "2026-02-01T10:00:00"),
      ResultItem("Acme LLC", "TX", "Resale", "2023-12-31", "", "TX_01_339", "2026-03-01T10:00:00") }

\* the certificate ids of a batch are distinct
CertIds == << "900", "100", "101", "102", "103" >>

WithId(item, k) ==
    IF k = 1 THEN [item EXCEPT !.avalara_cert_id = CertIds[k]] ELSE [item EXCEPT !.cert_id = CertIds[k]]

Batches ==
    UNION { { [k \in 1..n |-> WithId(items[k], k)] : items \in [1..n -> ResultItems] } : n \in 0..MaxBatch }

DuplicateCalls == { [ op |-> "find_duplicates", results |-> results ] : results \in Batches }

Calls ==
    DuplicateCalls \cup
    DispositionCalls \cup CompoundCalls \cup MtcCalls \cup SstCalls \cup NameCalls \cup ClassifyCalls
    \cup RouteCalls \cup CompatibilityCalls \cup FormStateCalls \cup ExemptionMatchCalls

NoRet == "None"

----------------------------------------------------------------------------
(* The runs *)

NoBatch == mode = "single" /\ docs = <<>> /\ idx = 0 /\ batch_results = <<>>

\* the vision extraction can raise on any document; the runs in which the
\* two extractions differ show it
ServiceOutcomes(run) == IF run \in PathRuns THEN BOOLEAN ELSE {FALSE}

InitRun ==
    /\ pc = "start"
    /\ \E run \in Runs :
        /\ today = run.today
        /\ state_arg = run.state_arg
        /\ extracted = run.extracted
        /\ \E raised \in ServiceOutcomes(run) :
            /\ llm_raised = raised
            /\ llm_fields = extract_fields_via_llm(raised, run.llm_fields, run.extracted.raw_text,
                                                   run.regex_fields)
        /\ regex_fields = run.regex_fields
    /\ result = NoResult
    /\ arg = NoArg
    /\ ret = NoRet
    /\ NoBatch

InitCall ==
    /\ pc = "call"
    /\ arg \in Calls
    /\ today = Today
    /\ state_arg = ""
    /\ extracted = EmptyFields
    /\ llm_raised = FALSE
    /\ llm_fields = EmptyFields
    /\ regex_fields = EmptyFields
    /\ result = NoResult
    /\ ret = NoRet
    /\ NoBatch

Init == InitRun \/ InitCall

\* pipeline.validate_certificate(pdf_path, state)
ValidateCertificate ==
    /\ pc = "start"
    /\ result' = validate_certificate(extracted, llm_fields, regex_fields, state_arg, today)
    /\ pc' = "done"
    /\ UNCHANGED <<today, state_arg, extracted, llm_raised, llm_fields, regex_fields, arg, ret>>
    /\ UNCHANGED batch_vars

Return(value) ==
    /\ ret' = value
    /\ pc' = "returned"
    /\ UNCHANGED <<today, state_arg, extracted, llm_raised, llm_fields, regex_fields, result, arg>>
    /\ UNCHANGED batch_vars

DetermineDisposition ==
    /\ pc = "call" /\ arg.op = "determine_disposition"
    /\ Return(determine_disposition(arg.checks, arg.fields, arg.form_type, arg.entity_type))

CheckCompoundFailure ==
    /\ pc = "call" /\ arg.op = "check_compound_failure"
    /\ Return(check_compound_failure(arg.previous_results))

CheckMtcResaleOnly ==
    /\ pc = "call" /\ arg.op = "check_mtc_resale_only"
    /\ Return(check_mtc_resale_only(arg.fields, arg.form_type, arg.state))

CheckSstMember ==
    /\ pc = "call" /\ arg.op = "check_sst_member"
    /\ Return(check_sst_member(arg.form_type, arg.state))

CheckPurchaserNameIsEntity ==
    /\ pc = "call" /\ arg.op = "check_purchaser_name_is_entity"
    /\ Return(check_purchaser_name_is_entity(arg.fields))

ClassifyEntity ==
    /\ pc = "call" /\ arg.op = "classify_entity"
    /\ Return(classify_entity(arg.fields))

CheckFormCorrectForState ==
    /\ pc = "call" /\ arg.op = "check_form_correct_for_state"
    /\ Return(check_form_correct_for_state(arg.form_type, arg.state))

CheckEntityExemptionMatch ==
    /\ pc = "call" /\ arg.op = "check_entity_exemption_match"
    /\ Return(check_entity_exemption_match(arg.fields, arg.entity_type, arg.state))

RouteToPathway ==
    /\ pc = "call" /\ arg.op = "route_to_pathway"
    /\ Return(route_to_pathway(arg.form_type, arg.entity_type, arg.fields))

CheckEntityFormCompatibility ==
    /\ pc = "call" /\ arg.op = "check_entity_form_compatibility"
    /\ Return(compatibility_under(arg.rules, arg.state, arg.entity_type, arg.form_type))

FindDuplicates ==
    /\ pc = "call" /\ arg.op = "find_duplicates"
    /\ Return(find_duplicates(arg.results))

Next ==
    \/ ValidateCertificate
    \/ DetermineDisposition
    \/ CheckCompoundFailure
    \/ CheckMtcResaleOnly
    \/ CheckSstMember
    \/ CheckPurchaserNameIsEntity
    \/ ClassifyEntity
    \/ RouteToPathway
    \/ CheckEntityFormCompatibility
    \/ FindDuplicates
    \/ CheckFormCorrectForState
    \/ CheckEntityExemptionMatch

Spec == Init /\ [][Next]_vars

----------------------------------------------------------------------------
(* scripts/run_batch.py: run_batch_local and run_batch_avalara *)

MaxDocs == 3

\* what the extraction stages make of one PDF
Content(ingest, raised, answer, regex) ==
    [ extracted |-> ingest, llm_raised |-> raised, llm_answer |-> answer, regex_fields |-> regex ]

\* a signed Texas 01-339, read by the vision extraction
TexasContent ==
    LET fields == ExtractedFields("Waller Harris ESD 200", GoodAddress, "", "Fleetio, Inc.",
                                  "Government services", "GOVERNMENT", "True", Date(2025, 1, 15), NoneDate,
                                  "", "", TexasText, 90, "TX_01_339", <<"TX">>)
    IN  Content(Ingest(TexasText, "True", 100), FALSE, fields, RegexBare(TexasText))

\* a file no stage can read: no text, no signature, no answer
UnreadableContent == Content(Ingest("", "False", 0), TRUE, EmptyFields, RegexBare(""))

\* a city on the New York exempt-organisation form
AlbanyContent ==
    LET fields == ExtractedFields("City of Albany", GoodAddress, "NY", "Fleetio", "Government agency",
                                  "GOVERNMENT", "True", Date(2025, 1, 15), NoneDate, "", "", "", 90,
                                  "NY_ST_119_1", <<"NY">>)
    IN  Content(Ingest("", "True", 100), FALSE, fields, RegexBare(""))

Contents == { TexasContent, UnreadableContent, AlbanyContent }

\* sorted(directory_path.glob("*.pdf")): the stems, in order
PdfStems == << "a", "b", "c", "d" >>

LocalBatches ==
    UNION { { [k \in 1..n |-> [stem |-> PdfStems[k], content |-> contents[k]]] :
              contents \in [1..n -> Contents] } : n \in 0..MaxDocs }

\* one listing of client.list_all_certificates, the outcome of its download
\* ("" when it succeeds, else the message of the RuntimeError that _request
\* raises), and what the downloaded PDF holds; an absent entry is ""
AvalaraCerts ==
    { [id |-> "7", customerName |-> "ABC Fleet Services", customerCode |-> "ABC", error |-> "",
       content |-> TexasContent],
      [id |-> "8", customerName |-> "", customerCode |-> "ALB", error |-> "", content |-> AlbanyContent],
      [id |-> "9", customerName |-> "Unreadable Co", customerCode |-> "", error |-> "",
       content |-> UnreadableContent],
      [id |-> "10", customerName |-> "ABC Fleet Services", customerCode |-> "ABC",
       error |-> "Avalara API error 404: Not Found", content |-> UnreadableContent],
      [id |-> "", customerName |-> "No Id Inc", customerCode |-> "NOID", error |-> "",
       content |-> TexasContent] }

AvalaraBatches == UNION { [1..n -> AvalaraCerts] : n \in 0..MaxDocs }

InitBatch ==
    /\ pc = "next"
    /\ \/ mode = "local" /\ docs \in LocalBatches
       \/ mode = "avalara" /\ docs \in AvalaraBatches
    /\ idx = 1
    /\ batch_results = <<>>
    /\ today = Today
    /\ state_arg \in {"", "TX"}
    /\ extracted = EmptyFields
    /\ llm_raised = FALSE
    /\ llm_fields = EmptyFields
    /\ regex_fields = EmptyFields
    /\ result = NoResult
    /\ arg = NoArg
    /\ ret = NoRet

\* validate_certificate's extraction stages on the PDF in hand
Extract(content) ==
    /\ extracted' = content.extracted
    /\ llm_raised' = content.llm_raised
    /\ llm_fields' = extract_fields_via_llm(content.llm_raised, content.llm_answer,
                                            content.extracted.raw_text, content.regex_fields)
    /\ regex_fields' = content.regex_fields
    /\ pc' = "start"
    /\ UNCHANGED <<today, state_arg, result, arg, ret, mode, docs, idx, batch_results>>

\* run_batch_local 58-59: the next PDF goes to validate_certificate
BeginLocal ==
    /\ pc = "next" /\ mode = "local" /\ idx <= Len(docs)
    /\ Extract(docs[idx].content)

\* run_batch_local 60-62: the result gets the stem as its id and is kept
RecordLocal ==
    /\ pc = "done" /\ mode = "local"
    /\ result' = [result EXCEPT !.cert_id = IF @ = "" THEN docs[idx].stem ELSE @]
    /\ batch_results' = Append(batch_results, result')
    /\ idx' = idx + 1
    /\ pc' = "next"
    /\ UNCHANGED <<today, state_arg, extracted, llm_raised, llm_fields, regex_fields, arg, ret, mode, docs>>

\* run_batch_avalara 112-115: a listing without an id is passed over
SkipCertificate ==
    /\ pc = "next" /\ mode = "avalara" /\ idx <= Len(docs)
    /\ docs[idx].id = ""
    /\ idx' = idx + 1
    /\ UNCHANGED <<pc, today, state_arg, extracted, llm_raised, llm_fields, regex_fields, result, arg, ret,
                   mode, docs, batch_results>>

\* run_batch_avalara 116-121: the PDF is downloaded and goes to validate_certificate
BeginAvalara ==
    /\ pc = "next" /\ mode = "avalara" /\ idx <= Len(docs)
    /\ docs[idx].id # "" /\ docs[idx].error = ""
    /\ Extract(docs[idx].content)

\* run_batch_avalara 119: download_certificate_pdf raises; nothing between
\* the call and the caller of run_batch_avalara catches it
DownloadRaises ==
    /\ pc = "next" /\ mode = "avalara" /\ idx <= Len(docs)
    /\ docs[idx].id # "" /\ docs[idx].error # ""
    /\ pc' = "raised"
    /\ UNCHANGED <<today, state_arg, extracted, llm_raised, llm_fields, regex_fields, result, arg, ret,
                   mode, docs, idx, batch_results>>

\* run_batch_avalara 122-126
RecordAvalara ==
    /\ pc = "done" /\ mode = "avalara"
    /\ LET cert == docs[idx]
           listed == IF cert.customerName # "" THEN cert.customerName
                     ELSE IF cert.customerCode # "" THEN cert.customerCode
                     ELSE "Unknown"
       IN  result' = [result EXCEPT !.avalara_cert_id = cert.id,
                                    !.cert_id = cert.id,
                                    !.customer_name = IF @ = "" \/ Lower(@) = "unknown" THEN listed ELSE @]
    /\ batch_results' = Append(batch_results, result')
    /\ idx' = idx + 1
    /\ pc' = "next"
    /\ UNCHANGED <<today, state_arg, extracted, llm_raised, llm_fields, regex_fields, arg, ret, mode, docs>>

\* validated_at of the k-th result of a run: datetime.utcnow() when it was built
ValidatedAt(k) == "2026-03-01T10:00:0" \o NatStr(k)

\* r.model_dump(mode="json"), the entries find_duplicates reads; the model
\* has no cert_date field
model_dump(r, k) ==
    [ cert_id |-> r.cert_id,
      avalara_cert_id |-> r.avalara_cert_id,
      customer_name |-> r.customer_name,
      state |-> r.state,
      exemption_category |-> IF r.exemption_category = "None" THEN "" ELSE CategoryValue(r.exemption_category),
      cert_date |-> "",
      expiration_date |-> IF r.expiration_date = NoneDate THEN "" ELSE IsoFormat(r.expiration_date),
      form_type |-> FormValue(r.form_type),
      validated_at |-> ValidatedAt(k) ]

\* report.py 95: the duplicate candidates of generate_portfolio_report
ReportDuplicates(results) == find_duplicates([k \in 1..Len(results) |-> model_dump(results[k], k)])

\* _write_portfolio_artifacts(results, output_path), after the loop:
\* generate_portfolio_report runs find_duplicates on the collected results
WritePortfolioArtifacts ==
    /\ pc = "next" /\ mode # "single" /\ idx > Len(docs)
    /\ ret' = ReportDuplicates(batch_results)
    /\ pc' = "reported"
    /\ UNCHANGED <<today, state_arg, extracted, llm_raised, llm_fields, regex_fields, result, arg,
                   mode, docs, idx, batch_results>>

NextBatch ==
    \/ BeginLocal
    \/ SkipCertificate
    \/ BeginAvalara
    \/ DownloadRaises
    \/ ValidateCertificate
    \/ RecordLocal
    \/ RecordAvalara
    \/ WritePortfolioArtifacts

BatchSpec == InitBatch /\ [][NextBatch]_vars

----------------------------------------------------------------------------
(* src/payment-patrol/src/scoring.py.  Factors are in tenths, weights in   *)
(* hundredths, the weighted score in thousandths and priority_score, which *)
(* round(score, 2) produces, in hundredths.                                *)

MaxCustomers == 3

\* bisect_left(sorted_values, total_ar): the values below total_ar
BisectLeft(values, total_ar) == Cardinality({ k \in 1..Len(values) : values[k] < total_ar })

\* pct = (idx + 1) / len(sorted_values), compared without dividing
dollar_factor(total_ar, values) ==
    IF Len(values) = 0 THEN 10
    ELSE LET rank == BisectLeft(values, total_ar) + 1
             n == Len(values)
         IN  IF rank * 100 <= 25 * n THEN 10
             ELSE IF rank * 100 <= 50 * n THEN 20
             ELSE IF rank * 100 <= 75 * n THEN 30
             ELSE IF rank * 100 <= 95 * n THEN 40
             ELSE 50

dpd_factor(days, terms, is_government) ==
    LET per_terms == Max(terms, 1)
        score ==
            IF terms = 0
            THEN (IF days < 5 THEN 10 ELSE IF days < 10 THEN 20 ELSE IF days < 15 THEN 30
                  ELSE IF days < 21 THEN 40 ELSE 50)
            ELSE (IF 2 * days < per_terms THEN 10
                  ELSE IF days < per_terms THEN 20
                  ELSE IF 2 * days < 3 * per_terms THEN 30
                  ELSE IF days < 2 * per_terms THEN 40
                  ELSE 50)
    IN  IF is_government THEN Max(10, score - 5) ELSE score

collection_factor(method) ==
    IF method = "" THEN 20
    ELSE IF Contains(Lower(method), "auto") THEN 50
    ELSE IF Contains(Lower(method), "remittance") THEN 30
    ELSE 20

invoice_factor(count) == 10 * Min(Max(count, 1), 5)

history_factor(days) ==
    IF days <= 0 THEN 10
    ELSE IF days <= 30 THEN 20
    ELSE IF days <= 60 THEN 30
    ELSE IF days <= 90 THEN 40
    ELSE 50

\* on priority_score, in hundredths
tier_for_score(score) ==
    IF score >= 400 THEN "Tier 1"
    ELSE IF score >= 300 THEN "Tier 2"
    ELSE IF score >= 200 THEN "Tier 3"
    ELSE "Tier 4"

\* (c.billing_method or "").lower().startswith("auto") and c.oldest_past_due_days > 5
AutoPayFailed(c) == StartsAt(Lower(c.billing_method), 1, "auto") /\ c.oldest_past_due_days > 5

suggested_action(c) ==
    IF AutoPayFailed(c) THEN "Auto-pay failed " \o NatStr(c.oldest_past_due_days) \o " days ago."
    ELSE IF c.is_government /\ c.oldest_past_due_days > 0
    THEN "Government account, Net " \o NatStr(c.effective_terms) \o " terms."
    ELSE IF c.priority_tier = "Tier 1"
    THEN "Commercial account, $" \o NatStr(c.total_past_due) \o " past due."
    ELSE IF c.priority_tier = "Tier 2" THEN "Commercial account on watch list."
    ELSE "Monitor account through standard dunning cadence."

AutoPayBoost == 1000

MaxScore == 5000

Clamp_FromBelow(score) == Max(0, score)

\* max(0.0, min(5.0, score))
Clamp(score) == Max(0, Min(MaxScore, score))

\* round(score, 2): to the nearest hundredth; a score that the arithmetic
\* puts midway between two hundredths is a binary fraction just under or
\* just over the midpoint, and goes down or up accordingly
Round2(score, over) ==
    IF score % 10 = 5 THEN (IF over THEN score \div 10 + 1 ELSE score \div 10)
    ELSE (score + 5) \div 10

\* lines 102-116, for one customer
Scored(c, values) ==
    LET f1 == dollar_factor(c.total_ar, values)
        f2 == dpd_factor(c.oldest_past_due_days, c.effective_terms, c.is_government)
        f3 == collection_factor(IF c.billing_method # "" THEN c.billing_method ELSE c.collection_method)
        f4 == invoice_factor(c.invoice_count)
        f5 == history_factor(c.oldest_past_due_days)
        weighted == (f1 * 25) + (f2 * 25) + (f3 * 20) + (f4 * 15) + (f5 * 15)
        score == Clamp(IF AutoPayFailed(c) THEN weighted + AutoPayBoost ELSE weighted)
        priority_score == Round2(score, c.sum_over)
        tiered == [ c EXCEPT !.priority_score = priority_score,
                             !.priority_tier = tier_for_score(priority_score),
                             !.health_color = IF priority_score >= 400 THEN "red"
                                              ELSE IF priority_score >= 300 THEN "yellow"
                                              ELSE "green" ]
    IN  [ tiered EXCEPT !.suggested_action = suggested_action(tiered) ]

\* sorted(values): ascending
RECURSIVE InsertAscending(_, _)
InsertAscending(v, sorted) ==
    IF Len(sorted) > 0 /\ v < sorted[Len(sorted)]
    THEN InsertAscending(v, SubSeq(sorted, 1, Len(sorted) - 1)) \o <<sorted[Len(sorted)]>>
    ELSE sorted \o <<v>>

RECURSIVE SortedValues(_)
SortedValues(values) ==
    IF Len(values) = 0 THEN <<>>
    ELSE InsertAscending(values[Len(values)], SortedValues(SubSeq(values, 1, Len(values) - 1)))

\* sorted(customers, key=priority_score, reverse=True): equal scores keep their order
RECURSIVE InsertDescending(_, _)
InsertDescending(c, sorted) ==
    IF Len(sorted) > 0 /\ c.priority_score > sorted[Len(sorted)].priority_score
    THEN InsertDescending(c, SubSeq(sorted, 1, Len(sorted) - 1)) \o <<sorted[Len(sorted)]>>
    ELSE sorted \o <<c>>

RECURSIVE SortedByScore(_)
SortedByScore(customers) ==
    IF Len(customers) = 0 THEN <<>>
    ELSE InsertDescending(customers[Len(customers)], SortedByScore(SubSeq(customers, 1, Len(customers) - 1)))

score_customers(customers) ==
    LET values == SortedValues([k \in 1..Len(customers) |-> customers[k].total_ar])
    IN  SortedByScore([k \in 1..Len(customers) |-> Scored(customers[k], values)])

\* a CustomerSummary as build_customer_summaries leaves it; sum_over says on
\* which side of a midpoint the floating-point sum of the customer falls
CustomerSummary(name, gov, invoices, total_ar, past_due, days, terms, billing, collection, over) ==
    [ customer_name |-> name, is_government |-> gov, invoice_count |-> invoices, total_ar |-> total_ar,
      total_past_due |-> past_due, oldest_past_due_days |-> days, effective_terms |-> terms,
      billing_method |-> billing, collection_method |-> collection, sum_over |-> over,
      priority_score |-> 0, priority_tier |-> "Tier 4", health_color |-> "green", suggested_action |-> "" ]

\* one customer on its own, in every combination of the factors
LoneCustomers ==
    { CustomerSummary("City of Mobile", gov, invoices, 1000, 400, days, terms, billing, collection, over) :
        gov \in BOOLEAN,
        invoices \in {0, 3, 9},
        days \in {0, 4, 6, 20, 21, 45, 75, 120},
        terms \in {0, 30, 60},
        billing \in {"", "Auto-pay", "Check"},
        collection \in {"", "Remittance"},
        over \in BOOLEAN }

\* customers that meet in one portfolio
PortfolioCustomers ==
    { CustomerSummary("Rapid Logistics", FALSE, 9, 90000, 90000, 120, 0, "Auto-pay", "", FALSE),
      CustomerSummary("Acme Construction", FALSE, 4, 5000, 5000, 75, 30, "Check", "", FALSE),
      CustomerSummary("Nimble Auto", FALSE, 1, 100, 0, 0, 30, "", "", FALSE),
      CustomerSummary("Harbor Freight Lines", FALSE, 1, 5000, 0, 0, 60, "", "Manual auto-debit", FALSE) }
    \cup { CustomerSummary("City of Mobile", TRUE, 2, 1000, 400, 45, 30, "", "Remittance", over) :
             over \in BOOLEAN }
    \cup { CustomerSummary("County Schools", TRUE, 3, 200, 200, 20, 0, "Auto-pay", "", over) :
             over \in BOOLEAN }

Portfolios ==
    { <<c>> : c \in LoneCustomers }
    \cup UNION { [1..n -> PortfolioCustomers] : n \in 0..MaxCustomers }

\* no run of validate_certificate is in progress
NoRun ==
    /\ today = Today
    /\ state_arg = ""
    /\ extracted = EmptyFields
    /\ llm_raised = FALSE
    /\ llm_fields = EmptyFields
    /\ regex_fields = EmptyFields
    /\ result = NoResult

InitScoring ==
    /\ pc = "call"
    /\ arg \in { [ op |-> "score_customers", customers |-> customers ] : customers \in Portfolios }
    /\ ret = NoRet
    /\ NoRun
    /\ NoBatch

ScoreCustomers ==
    /\ pc = "call" /\ arg.op = "score_customers"
    /\ Return(score_customers(arg.customers))

ScoringSpec == InitScoring /\ [][ScoreCustomers]_vars

----------------------------------------------------------------------------
(* parse.py: identify_form_type.  Confidences are in thousandths, which is *)
(* what round(confidence, 3) keeps.  The catalog that                      *)
(* load_config("form_templates.json") returns is an argument: a sequence   *)
(* of entries [name, identifiers] in the order of the file's keys.         *)

IsLowerAlnum(c) == InChars(c, LowerChars) \/ IsDigit(c)

\* re.search(r"(?<![a-z0-9])code(?![a-z0-9])", text)
has_form_code(text, code) ==
    \E i \in 1..Len(text) :
        /\ StartsAt(text, i, code)
        /\ i = 1 \/ ~IsLowerAlnum(CharAt(text, i - 1))
        /\ i + Len(code) > Len(text) \/ ~IsLowerAlnum(CharAt(text, i + Len(code)))

\* lines 107-139: the first strong-signal rule that matches, as <<form, confidence>>; <<>> when none does
StrongSignal(text) ==
    IF has_form_code(text, "dr-14")
       \/ (Contains(text, "consumer's certificate of exemption") /\ Contains(text, "florida"))
    THEN <<"FL_DR_14", 980>>
    ELSE IF has_form_code(text, "rev-1220")
            \/ (Contains(text, "pennsylvania") /\ Contains(text, "exemption") /\ Contains(text, "certificate"))
    THEN <<"PA_REV_1220", 980>>
    ELSE IF has_form_code(text, "01-339") THEN <<"TX_01_339", 980>>
    ELSE IF has_form_code(text, "stec-b") \/ has_form_code(text, "stec b") THEN <<"OH_STEC_B", 980>>
    ELSE IF has_form_code(text, "ste-1")
            \/ (Contains(text, "alabama") /\ Contains(text, "exemption certificate")
                /\ Contains(text, "check proper box"))
    THEN <<"AL_STE_1", 960>>
    ELSE IF has_form_code(text, "st-121") \/ Contains(text, "exempt use certificate") THEN <<"NY_ST_121", 960>>
    ELSE IF /\ Contains(text, "new york state department of taxation and finance")
            /\ Contains(text, "dear sir or madam")
            /\ Contains(text, "governmental entities")
    THEN <<"NY_GOV_LETTER", 970>>
    ELSE IF has_form_code(text, "st-119.1") \/ has_form_code(text, "119.1") THEN <<"NY_ST_119_1", 960>>
    ELSE <<>>

\* sum(1 for ident in identifiers if ident and ident.lower() in text)
Matched(identifiers, text) ==
    Cardinality({ k \in 1..Len(identifiers) :
                    identifiers[k] # "" /\ Contains(text, Lower(identifiers[k])) })

safe_form_type(name) == IF name \in FormType THEN name ELSE "UNKNOWN"

TieOverrideForms_AllStateForms == FormType \ {"MTC_UNIFORM", "SST_F0003", "UNKNOWN"}

TieOverrideForms == {"TX_01_339", "MD_GOV_1", "NY_ST_119_1"}

GenericForms == {"MTC_UNIFORM", "SST_F0003"}

\* lines 145-172: one turn of the loop on best == [form, count, total]
ScanEntry(best, entry, text) ==
    LET matched == Matched(entry.identifiers, text)
        total == IF Len(entry.identifiers) = 0 THEN 1 ELSE Len(entry.identifiers)
        candidate == safe_form_type(entry.name)
        skipped == entry.name = "NY_ST_119_1"
                   /\ ~(has_form_code(text, "st-119.1") \/ has_form_code(text, "119.1"))
    IN  IF skipped \/ matched = 0 THEN best
        ELSE IF best.form = "UNKNOWN" \/ matched > best.count
        THEN [form |-> candidate, count |-> matched, total |-> total]
        ELSE IF matched = best.count /\ candidate \in TieOverrideForms /\ best.form \in GenericForms
        THEN [best EXCEPT !.form = candidate, !.total = total]
        ELSE best

RECURSIVE Scan(_, _, _)
Scan(best, templates, text) ==
    IF Len(templates) = 0 THEN best
    ELSE Scan(ScanEntry(best, templates[1], text), Tail(templates), text)

StrongTokens(form) ==
    CASE form = "TX_01_339" -> <<"01-339", "form 01-339">>
      [] form = "MD_GOV_1" -> <<"gov-1">>
      [] form = "SST_F0003" -> <<"f0003">>
      [] form = "FEDERAL_SF_1094" -> <<"sf-1094", "standard form 1094">>
      [] OTHER -> <<>>

StrongTokenFloor == 950

SingleMatchCap == 450

\* round(min(1.0, best_count / best_total), 3), in thousandths
Ratio(count, total) == Min(1000, (2000 * count + total) \div (2 * total))

identify_form_type(raw_text, templates) ==
    IF raw_text = "" THEN <<"UNKNOWN", 0>>
    ELSE LET text == Lower(raw_text)
             strong == StrongSignal(text)
             best == Scan([form |-> "UNKNOWN", count |-> 0, total |-> 1], templates, text)
             tokens == StrongTokens(best.form)
             ratio == Ratio(best.count, best.total)
             floored == IF \E k \in 1..Len(tokens) : Contains(text, tokens[k])
                        THEN Max(ratio, StrongTokenFloor) ELSE ratio
             capped == IF best.count = 1 /\ Contains(text, "exemption certificate")
                       THEN Min(floored, SingleMatchCap) ELSE floored
         IN  IF strong # <<>> THEN strong
             ELSE IF best.form = "UNKNOWN" THEN <<"UNKNOWN", 0>>
             ELSE <<best.form, capped>>

MaxCatalog == 3

\* entries of the catalog and their identifier phrases
CatalogEntries ==
    { [name |-> "MTC_UNIFORM", identifiers |-> <<"uniform sales", "multijurisdiction", "exemption certificate">>],
      [name |-> "SST_F0003", identifiers |-> <<"streamlined sales tax", "certificate of exemption", "f0003">>],
      [name |-> "TX_01_339", identifiers |-> <<"texas sales and use tax", "exemption certification">>],
      [name |-> "MD_GOV_1", identifiers |-> <<"comptroller of maryland", "gov-1">>],
      [name |-> "IA_31_014A", identifiers |-> <<"iowa sales tax", "exemption certificate">>],
      [name |-> "NY_ST_119_1", identifiers |-> <<"exempt organization">>] }

\* the keys of a JSON object are distinct
Catalogs ==
    UNION { { c \in [1..n -> CatalogEntries] : \A i, j \in 1..n : i # j => c[i].name # c[j].name } :
            n \in 0..MaxCatalog }

DocumentTexts ==
    { "",
      "Invoice 12345",
      "Texas Sales and Use Tax Exemption Certification 01-339",
      "Uniform Sales & Use Tax Multijurisdictional Exemption Certificate",
      "Streamlined Sales Tax Certificate of Exemption F0003",
      "Comptroller of Maryland GOV-1 Government Exemption Card",
      "Iowa Sales Tax Exemption Certificate",
      "Iowa sales tax exemption certificate for uniform sales",
      "Texas Sales and Use Tax Exemption Certification, uniform sales, multijurisdiction",
      "Comptroller of Maryland GOV-1, streamlined sales tax certificate of exemption",
      "Exempt Organization, exemption certificate",
      "Exempt Organization Certificate ST-119.1" }

InitIdentify ==
    /\ pc = "call"
    /\ arg \in { [ op |-> "identify_form_type", raw_text |-> raw_text, templates |-> templates ] :
                  raw_text \in DocumentTexts, templates \in Catalogs }
    /\ ret = NoRet
    /\ NoRun
    /\ NoBatch

IdentifyFormType ==
    /\ pc = "call" /\ arg.op = "identify_form_type"
    /\ Return(identify_form_type(arg.raw_text, arg.templates))

IdentifySpec == InitIdentify /\ [][IdentifyFormType]_vars

----------------------------------------------------------------------------
(* avalara.py: AvalaraClient.list_all_certificates.  The service holds the *)
(* company's certificates arg.certs; every request is answered with a page *)
(* or with an error.                                                        *)

MaxCertificates == 4

MaxRequests == 5

MaxTop == 1000

\* the local variables of list_all_certificates
skip == idx

all_certs == batch_results

\* the answers received so far, each with the offset it was asked for
responses == docs

capped_batch(batch_size) == Min(Max(batch_size, 1), MaxTop)

\* list_certificates(top, skip) answered with a page: payload["value"]
list_certificates(certs, top, offset) ==
    LET first == Max(offset, 0) + 1
        last == Min(Max(offset, 0) + Min(top, MaxTop), Len(certs))
    IN  IF first > last THEN <<>> ELSE SubSeq(certs, first, last)

\* answers with status_code >= 400
ErrorResponses ==
    { [status |-> 429, body |-> "Too Many Requests"],
      [status |-> 500, body |-> "Internal Server Error"],
      [status |-> 404, body |-> "Company not found"],
      [status |-> 500, body |-> "Upstream timeout, trace 1429"] }

\* str(exc) of the RuntimeError that _request raises
ErrorMessage(response) == "Avalara API error " \o NatStr(response.status) \o ": " \o response.body

\* `"429" in str(exc)`
IsRateLimit(response) == Contains(ErrorMessage(response), "429")

Answered(status) == docs' = Append(docs, [status |-> status, skip |-> skip])

ListCalls ==
    { [ op |-> "list_all_certificates", batch_size |-> batch_size, certs |-> [k \in 1..n |-> k] ] :
        batch_size \in {0, 1, 2, 3, 2000}, n \in 0..MaxCertificates }

InitList ==
    /\ pc = "request"
    /\ mode = "listing"
    /\ arg \in ListCalls
    /\ idx = 0
    /\ batch_results = <<>>
    /\ docs = <<>>
    /\ ret = NoRet
    /\ NoRun

\* the request is answered with a page
PageReceived ==
    /\ pc = "request" /\ mode = "listing" /\ Len(responses) < MaxRequests
    /\ Answered(200)
    /\ LET page == list_certificates(arg.certs, capped_batch(arg.batch_size), skip)
       IN  IF page = <<>>
           THEN /\ pc' = "returned" /\ ret' = all_certs
                /\ UNCHANGED <<idx, batch_results>>
           ELSE /\ batch_results' = all_certs \o page
                /\ IF Len(page) < capped_batch(arg.batch_size)
                   THEN pc' = "returned" /\ ret' = batch_results' /\ UNCHANGED idx
                   ELSE idx' = skip + capped_batch(arg.batch_size) /\ UNCHANGED <<pc, ret>>
    /\ UNCHANGED <<today, state_arg, extracted, llm_raised, llm_fields, regex_fields, result, arg, mode>>

\* _request raises and the message holds "429": sleep, then the same request again
RetryAfterRateLimit ==
    /\ pc = "request" /\ mode = "listing" /\ Len(responses) < MaxRequests
    /\ \E response \in ErrorResponses :
        /\ IsRateLimit(response)
        /\ Answered(response.status)
    /\ UNCHANGED <<pc, today, state_arg, extracted, llm_raised, llm_fields, regex_fields, result, arg, ret,
                   mode, idx, batch_results>>

\* _request raises and the error is raised again to the caller
ErrorPropagates ==
    /\ pc = "request" /\ mode = "listing" /\ Len(responses) < MaxRequests
    /\ \E response \in ErrorResponses :
        /\ ~IsRateLimit(response)
        /\ Answered(response.status)
        /\ ret' = ErrorMessage(response)
    /\ pc' = "raised"
    /\ UNCHANGED <<today, state_arg, extracted, llm_raised, llm_fields, regex_fields, result, arg,
                   mode, idx, batch_results>>

NextList == PageReceived \/ RetryAfterRateLimit \/ ErrorPropagates

ListSpec == InitList /\ [][NextList]_vars

----------------------------------------------------------------------------
(* server.py: the /validate endpoint.  arg is the upload: its filename and *)
(* what the extraction stages make of the document in it.                   *)

\* def extract_fields_via_llm(pdf_path: str): the names a call may pass
ExtractParameters == { "pdf_path" }

\* extract_fields_via_llm(str(document_path), fallback_to_regex=False)
ValidateKeywords == { "fallback_to_regex" }

\* str() of the TypeError a call raises for a keyword the function does
\* not have; "" when the call can be made
CallError(name, parameters, keywords) ==
    IF keywords \subseteq parameters THEN ""
    ELSE name \o "() got an unexpected keyword argument '"
              \o (CHOOSE k \in keywords : k \notin parameters) \o "'"

RECURSIVE LastDot(_, _)
LastDot(s, k) ==
    IF k = 0 THEN 0
    ELSE IF SubSeq(s, k, k) = "." THEN k
    ELSE LastDot(s, k - 1)

\* Path(filename).suffix.lower()
Suffix(filename) ==
    LET k == LastDot(filename, Len(filename))
    IN  IF k <= 1 \/ k = Len(filename) THEN "" ELSE Lower(SubSeq(filename, k, Len(filename)))

\* _save_upload: the detail of the HTTPException, "" when the file is saved
save_upload(filename) ==
    IF filename = "" THEN "Uploaded file must include a filename"
    ELSE IF Suffix(filename) \notin {".pdf", ".png"} THEN "Only PDF and PNG files are supported"
    ELSE ""

run_validation(fields, now) ==
    LET form_type == fields.form_type_detected
        entity_type == classify_entity(fields)
        resolved_state == resolve_state("", fields.purchaser_state)
        compatibility == check_entity_form_compatibility(resolved_state, entity_type, form_type)
        pathway == route_to_pathway(form_type, entity_type, fields)
        checks == InsertCompatibility(
                      run_all_checks(fields, form_type, entity_type, pathway, resolved_state, now),
                      compatibility)
        outcome == determine_disposition(checks, fields, form_type, entity_type)
    IN  build_validation_result(fields, form_type, entity_type, pathway, resolved_state,
                                checks, outcome[1], outcome[2])

\* the ValidationResult of the except branch
review_result(error_message) ==
    [ customer_name |-> "Unknown Customer",
      state |-> "UNKNOWN",
      form_type |-> "UNKNOWN",
      entity_type |-> "UNKNOWN",
      pathway |-> "STANDARD_SELF_COMPLETED",
      seller_protection_standard |-> "Good Faith",
      disposition |-> "NEEDS_HUMAN_REVIEW",
      confidence_score |-> 0,
      hard_fails |-> <<>>,
      soft_flags |-> <<>>,
      reasonableness_flags |-> <<>>,
      checks |-> <<>>,
      human_review_needed |-> TRUE,
      human_review_reason |-> error_message ]

\* _build_response; the summary line is kept as the values it prints
build_response(extracted_fields, validation_result, error_note) ==
    LET notes == Messages(validation_result.reasonableness_flags)
                 \o (IF validation_result.human_review_reason \notin {"None", ""}
                      THEN << validation_result.human_review_reason >> ELSE <<>>)
                 \o (IF error_note # "" THEN << error_note >> ELSE <<>>)
    IN  [ status_code |-> 200,
          extracted_fields |-> extracted_fields,
          validation |-> [ disposition |-> validation_result.disposition,
                           hard_fails |-> Messages(validation_result.hard_fails),
                           soft_fails |-> Messages(validation_result.soft_flags),
                           notes |-> notes ],
          summary |-> [ customer_name |-> validation_result.customer_name,
                        state |-> validation_result.state,
                        form_type |-> FormValue(validation_result.form_type),
                        disposition |-> validation_result.disposition,
                        confidence_score |-> validation_result.confidence_score ] ]

\* the try block and its except branch: the three arguments _build_response
\* is called with
validate_upload(content, now) ==
    LET error == CallError("extract_fields_via_llm", ExtractParameters, ValidateKeywords)
        fields == extract_fields_via_llm(content.llm_raised, content.llm_answer,
                                         content.extracted.raw_text, content.regex_fields)
        error_message == "Extraction failed: " \o error
    IN  IF error = ""
        THEN [ extracted_fields |-> fields,
               result |-> run_validation(fields, now),
               error_note |-> "" ]
        ELSE [ extracted_fields |-> [ EmptyFields EXCEPT !.raw_text = error_message ],
               result |-> review_result(error_message),
               error_note |-> error_message ]

UploadNames == { "", "cert.pdf", "CERT.PDF", "scan.PNG", "form.png", "notes.txt", ".pdf" }

\* the documents clients send
UploadContents ==
    Contents \cup { Content(run.extracted, FALSE, run.llm_fields, run.regex_fields) :
                       run \in JurisdictionRuns }

Uploads ==
    { [ op |-> "POST /validate", filename |-> filename, content |-> content ] :
        filename \in UploadNames, content \in UploadContents }

InitServer ==
    /\ pc = "request"
    /\ arg \in Uploads
    /\ NoRun
    /\ ret = NoRet
    /\ mode = "http" /\ docs = <<>> /\ idx = 0 /\ batch_results = <<>>

\* _save_upload raises: the framework answers 400
RejectUpload ==
    /\ pc = "request"
    /\ save_upload(arg.filename) # ""
    /\ ret' = [ status_code |-> 400, detail |-> save_upload(arg.filename) ]
    /\ pc' = "rejected"
    /\ UNCHANGED <<today, state_arg, extracted, llm_raised, llm_fields, regex_fields, result, arg>>
    /\ UNCHANGED batch_vars

\* the handler on a saved upload
PostValidate ==
    /\ pc = "request"
    /\ save_upload(arg.filename) = ""
    /\ \E outcome \in { validate_upload(arg.content, today) } :
        /\ result' = outcome.result
        /\ ret' = build_response(outcome.extracted_fields, outcome.result, outcome.error_note)
    /\ pc' = "responded"
    /\ UNCHANGED <<today, state_arg, extracted, llm_raised, llm_fields, regex_fields, arg>>
    /\ UNCHANGED batch_vars

NextServer == RejectUpload \/ PostValidate

ServerSpec == InitServer /\ [][NextServer]_vars

----------------------------------------------------------------------------
(* Properties *)

IsFailed(check, severity) == ~check.passed /\ check.severity = severity

HasFailed(checks, severity) == \E k \in 1..Len(checks) : IsFailed(checks[k], severity)

CountFailed(checks, severity) == Cardinality({ k \in 1..Len(checks) : IsFailed(checks[k], severity) })

Returned(op) == pc = "returned" /\ arg.op = op

\* the disposition the ladder assigns to a check list
Ladder(checks) ==
    IF HasFailed(checks, "HARD_FAIL") THEN "NEEDS_CORRECTION"
    ELSE IF HasFailed(checks, "REASONABLENESS") THEN "NEEDS_HUMAN_REVIEW"
    ELSE IF HasFailed(checks, "SOFT_FLAG") THEN "VALIDATED_WITH_NOTES"
    ELSE "VALIDATED"

\* results that must not move the disposition: passed ones and a failed INFO
NeutralResults ==
    { CheckResult("extra", TRUE, severity, "") : severity \in CheckSeverity }
    \cup { CheckResult("extra", FALSE, "INFO", "") }

\* C1: the disposition determine_disposition returns is NEEDS_CORRECTION iff
\* some check is failed with HARD_FAIL, else NEEDS_HUMAN_REVIEW iff some check
\* is failed with REASONABLENESS, else VALIDATED_WITH_NOTES iff some check is
\* failed with SOFT_FLAG, else VALIDATED, for a list handed to it directly and
\* for the list validate_certificate builds; a further passed check or failed
\* INFO check leaves the disposition as it is.
C1_DispositionLadder ==
    /\ Returned("determine_disposition") =>
        /\ ret[1] = Ladder(arg.checks)
        /\ \A extra \in NeutralResults :
            determine_disposition(Append(arg.checks, extra), arg.fields,
                                  arg.form_type, arg.entity_type)[1] = ret[1]
    /\ pc = "done" => result.disposition = Ladder(result.checks)

\* a run whose list starts with the inserted compatibility failure and also
\* holds a failed reasonableness or soft flag
C1_Witness ==
    /\ pc = "done"
    /\ result.checks[1].check_name = "classify.entity_form_compatibility"
    /\ HasFailed(result.checks, "REASONABLENESS") \/ HasFailed(result.checks, "SOFT_FLAG")
    /\ result.disposition = "NEEDS_CORRECTION"

\* 100 less the penalties, before the floor
RawConfidence(checks, extraction_confidence, form_type, entity_type) ==
    100 - 3 * CountFailed(checks, "SOFT_FLAG") - 10 * CountFailed(checks, "REASONABLENESS")
        - (IF extraction_confidence < 80 THEN 15 ELSE 0)
        - (IF form_type = "UNKNOWN" THEN 20 ELSE 0)
        - (IF entity_type = "UNKNOWN" THEN 10 ELSE 0)

Floor0(n) == IF n < 0 THEN 0 ELSE n

\* C2: the confidence score is max(0, 100 - 3 per failed SOFT_FLAG - 10 per
\* failed REASONABLENESS - 15 if extraction confidence < 0.8 - 20 if the form
\* is UNKNOWN - 10 if the entity is UNKNOWN); it lies in 0..100, does not rise
\* when one more soft or reasonableness flag is added, and is the same with
\* one more failed HARD_FAIL check.
C2_ConfidenceScore ==
    /\ Returned("determine_disposition") =>
        /\ ret[2] = Floor0(RawConfidence(arg.checks, arg.fields.extraction_confidence,
                                         arg.form_type, arg.entity_type))
        /\ ret[2] \in 0..100
        /\ \A severity \in {"SOFT_FLAG", "REASONABLENESS"} :
            determine_disposition(Append(arg.checks, CheckResult("extra", FALSE, severity, "")),
                                  arg.fields, arg.form_type, arg.entity_type)[2] <= ret[2]
        /\ determine_disposition(Append(arg.checks, CheckResult("extra", FALSE, "HARD_FAIL", "")),
                                 arg.fields, arg.form_type, arg.entity_type)[2] = ret[2]
    /\ pc = "done" =>
        /\ result.confidence_score = Floor0(RawConfidence(result.checks, result.extraction_confidence,
                                                          result.form_type, result.entity_type))
        /\ result.confidence_score \in 0..100

\* a call in which the penalties exceed 100 and the score is held at 0
C2_Witness ==
    /\ Returned("determine_disposition")
    /\ RawConfidence(arg.checks, arg.fields.extraction_confidence, arg.form_type, arg.entity_type) < 0
    /\ ret[2] = 0

\* the failed HARD_FAIL checks of a list other than the compound-failure check
IndependentHardFails(checks) ==
    { k \in 1..Len(checks) :
        IsFailed(checks[k], "HARD_FAIL") /\ checks[k].check_name # "completeness.compound_failure" }

HasCompoundFailure(checks) ==
    \E k \in 1..Len(checks) :
        checks[k].check_name = "completeness.compound_failure" /\ IsFailed(checks[k], "HARD_FAIL")

\* C3: a run whose final check list holds three or more failed HARD_FAIL
\* checks other than the compound-failure check, whichever checks produced
\* them, also holds a failed HARD_FAIL completeness.compound_failure check.
C3_CompoundAlways ==
    pc = "done" =>
        (Cardinality(IndependentHardFails(result.checks)) >= 3 => HasCompoundFailure(result.checks))

\* C4: check_compound_failure returns one failed HARD_FAIL result iff the
\* list it is given holds at least three results that are failed and of
\* severity HARD_FAIL, and abstains otherwise; passed HARD_FAIL-severity
\* results and failed results of other severities are not counted.
C4_CompoundFailure ==
    Returned("check_compound_failure") =>
        IF CountFailed(arg.previous_results, "HARD_FAIL") >= 3
        THEN /\ ret # NoneResult
             /\ ret.check_name = "completeness.compound_failure"
             /\ IsFailed(ret, "HARD_FAIL")
        ELSE ret = NoneResult

\* a call that abstains on two failed HARD_FAIL results although a passed
\* HARD_FAIL-severity result and a failed result of another severity are
\* in the list too
C4_Witness ==
    /\ Returned("check_compound_failure")
    /\ CountFailed(arg.previous_results, "HARD_FAIL") = 2
    /\ \E k \in 1..Len(arg.previous_results) :
        arg.previous_results[k].passed /\ arg.previous_results[k].severity = "HARD_FAIL"
    /\ HasFailed(arg.previous_results, "REASONABLENESS")
    /\ ret = NoneResult

\* the fields the checks of a run read
Parsed == SelectParsed(extracted, llm_fields, regex_fields)

\* a finished run on the Texas 01-339 form of Waller Harris ESD 200 with override TX
TexasCase ==
    /\ pc = "done"
    /\ result.form_type = "TX_01_339"
    /\ Parsed.purchaser_name = "Waller Harris ESD 200"
    /\ state_arg = "TX"

\* name, address, signature, certificate date and reason are all present
FieldsPresent ==
    /\ Len(Strip(Parsed.purchaser_name)) >= 2
    /\ Len(Strip(Parsed.purchaser_address)) >= 5
    /\ Parsed.signature_present = "True"
    /\ Parsed.cert_date # NoneDate
    /\ Len(Strip(Parsed.exemption_reason)) >= 3

\* C5 as stated: the Texas run yields LOCAL_GOVERNMENT, STANDARD_SELF_COMPLETED
\* and the rule 'never', and with name, address, signature, date and reason
\* present it has no failed HARD_FAIL check and is VALIDATED or
\* VALIDATED_WITH_NOTES, whatever the seller name is.
C5_AsStated ==
    TexasCase =>
        /\ result.entity_type = "LOCAL_GOVERNMENT"
        /\ result.pathway = "STANDARD_SELF_COMPLETED"
        /\ result.expiration_rule = "never"
        /\ FieldsPresent =>
            /\ ~HasFailed(result.checks, "HARD_FAIL")
            /\ result.disposition \in {"VALIDATED", "VALIDATED_WITH_NOTES"}

\* the seller name is one check_seller_name does not hard-fail
SellerAccepted ==
    LET lower == Lower(Strip(Parsed.seller_name))
    IN  \/ lower \in { Lower(v) : v \in SellerNameVariants }
        \/ Contains(lower, "fleetio")
        \/ Contains(lower, "rarestep")
        \/ lower \in GenericSellerNames

\* name and text hold no federal or state-government phrase
NoHigherGovernmentPhrase ==
    LET lower == Lower(Parsed.purchaser_name \o " " \o Parsed.raw_text)
    IN  ~contains_any(lower, FederalLower) /\ ~contains_any(lower, StateLower)

\* C5: the Texas run yields STANDARD_SELF_COMPLETED and the rule 'never', and
\* LOCAL_GOVERNMENT when name and text hold no federal or state-government
\* phrase; with name, address, signature, date and reason present, a seller
\* name the seller check accepts and a certificate date not in the future, it
\* has no failed HARD_FAIL check, and is VALIDATED or VALIDATED_WITH_NOTES
\* unless a reasonableness check failed, which makes it NEEDS_HUMAN_REVIEW.
C5_TexasCertificate ==
    TexasCase =>
        /\ NoHigherGovernmentPhrase => result.entity_type = "LOCAL_GOVERNMENT"
        /\ result.pathway = "STANDARD_SELF_COMPLETED"
        /\ result.expiration_rule = "never"
        /\ (FieldsPresent /\ SellerAccepted /\ ToOrdinal(Parsed.cert_date) <= ToOrdinal(today)) =>
            /\ ~HasFailed(result.checks, "HARD_FAIL")
            /\ IF HasFailed(result.checks, "REASONABLENESS")
               THEN result.disposition = "NEEDS_HUMAN_REVIEW"
               ELSE result.disposition \in {"VALIDATED", "VALIDATED_WITH_NOTES"}

\* a complete Texas certificate with a placeholder seller name, validated with notes
C5_Witness ==
    /\ TexasCase
    /\ FieldsPresent
    /\ Lower(Strip(Parsed.seller_name)) \in GenericSellerNames
    /\ ToOrdinal(Parsed.cert_date) <= ToOrdinal(today)
    /\ result.entity_type = "LOCAL_GOVERNMENT"
    /\ result.disposition = "VALIDATED_WITH_NOTES"

\* C6: on the MTC uniform form in a resale-only jurisdiction,
\* check_mtc_resale_only fails HARD_FAIL with a message naming the
\* jurisdiction and each alternative form whenever the derived category is
\* not RESALE, and never gives the resale-only failure when it is RESALE; on
\* every other form it abstains.
C6_MtcResaleOnly ==
    Returned("check_mtc_resale_only") =>
        LET jurisdiction == Upper(Strip(arg.state))
            category == derive_exemption_category(arg.fields)
            forms == ResaleOnlyStates[jurisdiction]
        IN  /\ arg.form_type # "MTC_UNIFORM" => ret = NoneResult
            /\ (arg.form_type = "MTC_UNIFORM" /\ jurisdiction \in DOMAIN ResaleOnlyStates
                /\ category # "RESALE") =>
                /\ ret.check_name = "form_correctness.mtc_resale_only"
                /\ IsFailed(ret, "HARD_FAIL")
                /\ Contains(ret.message, jurisdiction)
                /\ \A k \in 1..Len(forms) : Contains(ret.message, forms[k])
            /\ (arg.form_type = "MTC_UNIFORM" /\ category = "RESALE") =>
                ~(ret.check_name = "form_correctness.mtc_resale_only" /\ ~ret.passed)

\* an MTC certificate for TN whose reason makes the derived category GOVERNMENT
C6_Witness ==
    /\ Returned("check_mtc_resale_only")
    /\ arg.form_type = "MTC_UNIFORM"
    /\ Upper(Strip(arg.state)) = "TN"
    /\ arg.fields.exemption_category = "None"
    /\ derive_exemption_category(arg.fields) = "GOVERNMENT"
    /\ IsFailed(ret, "HARD_FAIL")
    /\ Contains(ret.message, "RV-F1301301")

\* C7: on SST_F0003, check_sst_member fails HARD_FAIL naming the jurisdiction
\* as a non-member iff the upper-cased, trimmed jurisdiction is not in the
\* member list, and passes as INFO iff it is; on every other form it abstains.
C7_SstMember ==
    Returned("check_sst_member") =>
        LET jurisdiction == Upper(Strip(arg.state))
        IN  IF arg.form_type # "SST_F0003" THEN ret = NoneResult
            ELSE IF jurisdiction \in SstMemberStates
            THEN ret.passed /\ ret.severity = "INFO"
            ELSE /\ IsFailed(ret, "HARD_FAIL")
                 /\ Contains(ret.message, jurisdiction \o " is not an SST member state")

\* the form submitted for " oh", a member once trimmed and upper-cased
C7_Witness ==
    /\ Returned("check_sst_member")
    /\ arg.form_type = "SST_F0003"
    /\ arg.state # Upper(Strip(arg.state))
    /\ Upper(Strip(arg.state)) \in SstMemberStates
    /\ ret.passed

\* the expiration.cert_age results of a list
CertAgeResults(checks) == SelectSeq(checks, LAMBDA c : c.check_name = "expiration.cert_age")

\* days from the certificate date to the day of the run
AgeDays == ToOrdinal(today) - ToOrdinal(Parsed.cert_date)

\* lo <= age < hi, the age in years being AgeDays / 365.25
AgeIn(lo, hi) == lo * 36525 <= AgeDays * 100 /\ AgeDays * 100 < hi * 36525

\* the certificate date is more than five calendar years before the day of the run
OverFiveYearsOld ==
    LET d == Parsed.cert_date
    IN  \/ d.y + 5 < today.y
        \/ d.y + 5 = today.y /\ (d.m < today.m \/ (d.m = today.m /\ d.d < today.d))

\* C8: with a certificate date the run holds exactly one expiration.cert_age
\* result: passed INFO for an age in [0,3) years, failed SOFT_FLAG with the
\* bucket's own message for [3,4), [4,5) and 5 or more; a date more than five
\* years back always gives the 5+ result; without a date there is none.
C8_CertAge ==
    pc = "done" =>
        LET ages == CertAgeResults(result.checks)
        IN  IF Parsed.cert_date = NoneDate THEN Len(ages) = 0
            ELSE /\ Len(ages) = 1
                 /\ AgeIn(0, 3) => ages[1].passed /\ ages[1].severity = "INFO"
                 /\ AgeIn(3, 4) => IsFailed(ages[1], "SOFT_FLAG") /\ ages[1].message = CertAgeFlags["3_to_4_years"]
                 /\ AgeIn(4, 5) => IsFailed(ages[1], "SOFT_FLAG") /\ ages[1].message = CertAgeFlags["4_to_5_years"]
                 /\ AgeDays * 100 >= 5 * 36525 =>
                        IsFailed(ages[1], "SOFT_FLAG") /\ ages[1].message = CertAgeFlags["5_plus_years"]
                 /\ OverFiveYearsOld =>
                        IsFailed(ages[1], "SOFT_FLAG") /\ Contains(ages[1].message, "5+ years")
                 /\ Cardinality({ CertAgeFlags[k] : k \in DOMAIN CertAgeFlags }) = 3

\* a certificate over five years old under a rule by which it never expires:
\* the expiration check passes and the age check still flags it
C8_Witness ==
    /\ pc = "done"
    /\ Parsed.cert_date # NoneDate
    /\ OverFiveYearsOld
    /\ \E k \in 1..Len(result.checks) :
        result.checks[k].check_name = "expiration.state_rule" /\ result.checks[k].passed
    /\ \E k \in 1..Len(result.checks) :
        result.checks[k].check_name = "expiration.cert_age" /\ IsFailed(result.checks[k], "SOFT_FLAG")

\* the whitespace-separated tokens of a name
Tokens(name) == SplitWs(Strip(name))

AllLetters(token) == \A i \in 1..Len(token) : IsAlpha(CharAt(token, i))

StartsCapital(token) == Len(token) >= 1 /\ InChars(CharAt(token, 1), UpperChars)

\* a capital letter followed by letters, apostrophes, hyphens and periods
PersonalNameToken(token) ==
    /\ StartsCapital(token)
    /\ \A i \in 2..Len(token) : IsAlpha(CharAt(token, i)) \/ CharAt(token, i) \in {"'", "-", "."}

RuleMatches(k, lower) ==
    CASE k = 1 -> contains_any(lower, FederalLower)
      [] k = 2 -> Contains(lower, "state university")
      [] k = 3 -> contains_any(lower, StateLower)
      [] k = 4 -> Contains(lower, "parish of")
      [] k = 5 -> contains_any(lower, LocalLower)
      [] k = 6 -> contains_any(lower, TribalContextLower)
                  \/ (Contains(lower, "nation") /\ Contains(lower, "tribal"))
      [] k = 7 -> contains_any(lower, EducationalLower)
      [] k = 8 -> contains_any(lower, NonprofitLower)
      [] k = 9 -> contains_any(lower, ReligiousLower)
      [] k = 10 -> contains_any(lower, ForProfitLower)
      [] OTHER -> TRUE

RuleTypes ==
    << "FEDERAL_GOVERNMENT", "STATE_GOVERNMENT", "STATE_GOVERNMENT", "LOCAL_GOVERNMENT",
       "LOCAL_GOVERNMENT", "TRIBAL", "EDUCATIONAL", "NONPROFIT_501C3", "RELIGIOUS",
       "FOR_PROFIT", "UNKNOWN" >>

\* C10: classify_entity returns the type of the first rule that matches in the
\* order federal, state university, state government, 'parish of', local
\* government, tribal, educational, nonprofit, religious, for-profit, else
\* UNKNOWN; 'Parish of St. Tammany' is LOCAL_GOVERNMENT, 'First Baptist Church
\* Parish Council' is RELIGIOUS, and a name with 'Nation' and no tribal phrase
\* is never TRIBAL.
C10_ClassifyOrder ==
    Returned("classify_entity") =>
        LET name == arg.fields.purchaser_name
            lower == Lower(name \o " " \o arg.fields.raw_text)
            first == CHOOSE k \in 1..11 : RuleMatches(k, lower) /\ \A j \in 1..(k - 1) : ~RuleMatches(j, lower)
        IN  /\ ret = RuleTypes[first]
            /\ name = "Parish of St. Tammany" => ret = "LOCAL_GOVERNMENT"
            /\ name = "First Baptist Church Parish Council" => ret = "RELIGIOUS"
            /\ (Contains(Lower(name), "nation") /\ ~contains_any(lower, TribalContextLower)) => ret # "TRIBAL"

----------------------------------------------------------------------------
\* the routing table of the specification, form by form
PathwayTable ==
    [ form \in FormType |->
        CASE form \in {"FEDERAL_SF_1094", "FEDERAL_GSA_CARD", "FEDERAL_LETTERHEAD"} -> "FEDERAL_EXEMPTION"
          [] form = "MD_GOV_1" -> "GOV_CARD_NO_EXPIRY"
          [] form \in {"MD_NONGOV_1", "FL_DR_14"} -> "GOV_CARD_WITH_EXPIRY"
          [] form \in {"IL_E99", "IL_STAX_70", "TN_GOV", "TN_EXEMPT_ORG", "NY_GOV_LETTER"} -> "STATE_ISSUED_CERT"
          [] form \in {"OH_DIRECT_PAY", "WA_RESELLER"} -> "SPECIAL_PERMIT"
          [] form \in {"MTC_UNIFORM", "SST_F0003"} -> "MULTI_STATE_UNIFORM"
          [] OTHER -> "STANDARD_SELF_COMPLETED" ]

\* C11: route_to_pathway gives every form type exactly one pathway, the one
\* the routing table lists for it, whatever the entity type and the fields
\* are; a form type the table does not single out goes to
\* STANDARD_SELF_COMPLETED.
C11_PathwayRouting ==
    /\ Returned("route_to_pathway") =>
            /\ ret \in ValidationPathway
            /\ ret = PathwayTable[arg.form_type]
    /\ pc = "done" => result.pathway = PathwayTable[result.form_type]

\* a government purchaser on a generic card is routed by the form alone
C11_Witness ==
    /\ Returned("route_to_pathway")
    /\ arg.form_type = "GOVERNMENT_ISSUED_CARD"
    /\ arg.entity_type = "FEDERAL_GOVERNMENT"
    /\ arg.fields.purchaser_name = "City of Albany"
    /\ ret = "STANDARD_SELF_COMPLETED"

----------------------------------------------------------------------------
\* some rule has this jurisdiction (whatever the case of the letters), this
\* form, and lists this entity type
Disallowed(rules, state, entity_type, form_type) ==
    \E k \in 1..Len(rules) :
        /\ Lower(rules[k].state) = Lower(state)
        /\ rules[k].form = form_type
        /\ entity_type \in rules[k].entity_types

IsCompatibilityCheck(check) == check.check_name = "classify.entity_form_compatibility"

\* C12: check_entity_form_compatibility reports a triple incompatible exactly
\* when some configured rule has its jurisdiction (case ignored), its form
\* and lists its entity type; in a pipeline run an incompatible triple puts
\* a failed HARD_FAIL classify.entity_form_compatibility check first in the
\* check list and the disposition is NEEDS_CORRECTION; a compatible triple
\* leaves no such check anywhere in the list.
C12_Compatibility ==
    /\ Returned("check_entity_form_compatibility") =>
            /\ ret[1] = ~Disallowed(arg.rules, arg.state, arg.entity_type, arg.form_type)
            /\ ret[1] => ret[2] = ""
    /\ pc = "done" =>
            IF Disallowed(IncompatibleRules, result.state, result.entity_type, result.form_type)
            THEN /\ Len(result.checks) > 0
                 /\ IsCompatibilityCheck(result.checks[1])
                 /\ IsFailed(result.checks[1], "HARD_FAIL")
                 /\ result.disposition = "NEEDS_CORRECTION"
            ELSE \A k \in 1..Len(result.checks) : ~IsCompatibilityCheck(result.checks[k])

\* a city on the New York exempt-organisation form, otherwise in order
C12_Witness ==
    /\ pc = "done"
    /\ result.state = "NY" /\ result.form_type = "NY_ST_119_1" /\ result.entity_type = "LOCAL_GOVERNMENT"
    /\ IsCompatibilityCheck(result.checks[1])
    /\ result.hard_fails = <<result.checks[1]>>
    /\ result.disposition = "NEEDS_CORRECTION"

----------------------------------------------------------------------------
\* the members of the batch that have the fingerprint of member i
Group(batch, i) == { j \in 1..Len(batch) : fingerprint(batch[j]) = fingerprint(batch[i]) }

\* certificate date, else validation timestamp
DateMarker(item) == IF item.cert_date = "" THEN item.validated_at ELSE item.cert_date

\* no member of the group sorts before member c
SortsFirst(batch, group, c) == \A j \in group : ~StrLess(DateMarker(batch[j]), DateMarker(batch[c]))

PairsInto(pairs, ids) == { k \in 1..Len(pairs) : pairs[k][2] \in ids }

\* C13: find_duplicates partitions a batch with distinct ids by fingerprint:
\* a group of n >= 2 members gives exactly n-1 pairs, all with the id of one
\* member that sorts first by certificate date (else validation timestamp)
\* as the canonical id and each other member exactly once as the duplicate;
\* a group of one gives nothing; no id is both a canonical and a duplicate.
C13_DuplicateGroups ==
    Returned("find_duplicates") =>
        LET batch == arg.results
            Id(j) == item_id(batch[j])
            Canonicals == { ret[k][1] : k \in 1..Len(ret) }
            Duplicates == { ret[k][2] : k \in 1..Len(ret) }
        IN  /\ Canonicals \cap Duplicates = {}
            /\ \A i \in 1..Len(batch) :
                    LET group == Group(batch, i)
                        into == PairsInto(ret, { Id(j) : j \in group })
                    IN  IF Cardinality(group) = 1
                        THEN Id(i) \notin Canonicals \cup Duplicates
                        ELSE /\ Cardinality(into) = Cardinality(group) - 1
                             /\ \E c \in group :
                                    /\ SortsFirst(batch, group, c)
                                    /\ \A k \in into : ret[k][1] = Id(c)
                                    /\ { ret[k][2] : k \in into } = { Id(j) : j \in group \ {c} }

\* three results that agree pairwise on the fingerprint, next to a fourth that does not
C13_Witness ==
    /\ Returned("find_duplicates")
    /\ Len(arg.results) = 4
    /\ Cardinality(Group(arg.results, 1)) = 3
    /\ Cardinality(Group(arg.results, 4)) = 1
    /\ arg.results[1].cert_date = ""
    /\ arg.results[3].cert_date # ""
    /\ ret = << <<"101", "900">>, <<"101", "100">> >>

----------------------------------------------------------------------------
\* the run's result was built from these extracted fields
BuiltFrom(fields) ==
    /\ result.form_type = fields.form_type_detected
    /\ result.customer_name = (IF fields.purchaser_name = "" THEN "Unknown Customer" ELSE fields.purchaser_name)
    /\ result.expiration_date = fields.expiration_date

\* C14: validate_certificate builds its result from the fields of the vision
\* extraction exactly when their confidence is at least 0.5, and from the
\* local extraction of the document text otherwise; when the vision
\* extraction raised, the fields returned in its place have confidence at
\* most 0.49 and the local extraction is the one used.
C14_ExtractionChoice ==
    /\ llm_raised => llm_fields.extraction_confidence <= 49
    /\ pc = "done" =>
            /\ llm_fields.extraction_confidence >= 50 => BuiltFrom(llm_fields)
            /\ llm_fields.extraction_confidence < 50 => BuiltFrom(regex_fields)
            /\ llm_raised => BuiltFrom(regex_fields)

\* the service answered with confidence 0.49 and the local extraction, which
\* read another name and no form, was used
C14_Witness ==
    /\ pc = "done"
    /\ ~llm_raised
    /\ llm_fields.extraction_confidence = 49
    /\ llm_fields.purchaser_name = "City of Albany"
    /\ result.customer_name = "Donna Miller"
    /\ result.form_type = "UNKNOWN"

----------------------------------------------------------------------------
\* the result reported for the document at position k of the batch
ReportedFor(k) ==
    { j \in 1..Len(batch_results) : batch_results[j].cert_id = (IF mode = "local" THEN docs[k].stem ELSE docs[k].id) }

\* the documents whose processing raised
FailedDocs == { k \in 1..Len(docs) : mode = "avalara" /\ docs[k].id # "" /\ docs[k].error # "" }

\* C15: a failure raised while one document of a batch is processed does
\* not abort the batch: the run goes on to its report, every other document
\* has its result in it, and the failing document has a NEEDS_HUMAN_REVIEW
\* result whose review reason is the failure message.
C15_BatchSurvivesFailure ==
    /\ pc # "raised"
    /\ pc = "reported" =>
            \A k \in 1..Len(docs) :
                /\ (mode = "local" \/ docs[k].id # "") => ReportedFor(k) # {}
                /\ k \in FailedDocs =>
                        \E j \in ReportedFor(k) :
                            /\ batch_results[j].disposition = "NEEDS_HUMAN_REVIEW"
                            /\ batch_results[j].human_review_reason = docs[k].error

\* C16: a ValidationResult is not changed once build_validation_result has
\* returned it: the step after its construction leaves its fields as they
\* are, and no step changes a result already in the batch's list.
C16_ResultImmutable ==
    [][ /\ pc = "done" => result' = result
        /\ \A k \in 1..Len(batch_results) : batch_results'[k] = batch_results[k] ]_vars

----------------------------------------------------------------------------
\* the confidence of the extraction whose fields the run used
UsedConfidence ==
    IF llm_fields.extraction_confidence >= 50
    THEN llm_fields.extraction_confidence
    ELSE regex_fields.extraction_confidence

\* C17: the extraction confidence on the ValidationResult is never lower
\* than the confidence of the document-text stage and never lower than the
\* confidence of the extraction (vision or local) whose fields were used.
C17_ConfidenceMonotone ==
    pc = "done" =>
        /\ result.extraction_confidence >= extracted.extraction_confidence
        /\ result.extraction_confidence >= UsedConfidence

\* the vision extraction is used at 0.5 over a text layer read at 0.85
C17_Witness ==
    /\ pc = "done"
    /\ llm_fields.extraction_confidence = 50
    /\ extracted.extraction_confidence = 85
    /\ result.customer_name = "City of Albany"
    /\ result.extraction_confidence = 85

----------------------------------------------------------------------------
\* C18: after score_customers every customer has a priority_score in
\* [0.0, 5.0], the priority_tier of that score (from 4.0 Tier 1, from 3.0
\* Tier 2, from 2.0 Tier 3, else Tier 4) and the health colour of that score
\* (from 4.0 red, from 3.0 yellow, else green), and the returned list is in
\* descending order of priority_score; the auto-pay-failure boost and the
\* government adjustment do not change this.
C18_ScoredCustomers ==
    Returned("score_customers") =>
        /\ Len(ret) = Len(arg.customers)
        /\ \A k \in 1..Len(ret) :
                LET c == ret[k]
                IN  /\ c.priority_score >= 0 /\ c.priority_score <= 500
                    /\ c.priority_tier =
                            (CASE c.priority_score >= 400 -> "Tier 1"
                               [] c.priority_score \in 300..399 -> "Tier 2"
                               [] c.priority_score \in 200..299 -> "Tier 3"
                               [] OTHER -> "Tier 4")
                    /\ c.health_color =
                            (CASE c.priority_score >= 400 -> "red"
                               [] c.priority_score \in 300..399 -> "yellow"
                               [] OTHER -> "green")
        /\ \A k \in 1..(Len(ret) - 1) : ret[k].priority_score >= ret[k + 1].priority_score

\* a portfolio of three in which the boosted auto-pay customer reaches the
\* cap and leads, and the government customer comes last
C18_Witness ==
    /\ Returned("score_customers")
    /\ Len(ret) = 3
    /\ arg.customers[3].customer_name = "Rapid Logistics"
    /\ ret[1].customer_name = "Rapid Logistics"
    /\ ret[1].priority_score = 500
    /\ ret[1].priority_tier = "Tier 1"
    /\ ret[3].is_government
    /\ ret[3].priority_score < ret[2].priority_score

----------------------------------------------------------------------------
\* how many of the identifier phrases of catalog entry k occur in the text
MatchCount(k) ==
    Cardinality({ i \in 1..Len(arg.templates[k].identifiers) :
                    Contains(Lower(arg.raw_text), arg.templates[k].identifiers[i]) })

NoStrongSignal == arg.raw_text # "" /\ StrongSignal(Lower(arg.raw_text)) = <<>>

NameAt(k) == arg.templates[k].name

\* the entries with the highest match count among the entries in ks
Top(ks) == { k \in ks : \A j \in ks : MatchCount(j) <= MatchCount(k) }

First(ks) == CHOOSE k \in ks : \A j \in ks : k <= j

\* forms of one jurisdiction
StateSpecific(form) ==
    form \notin { "MTC_UNIFORM", "SST_F0003", "FEDERAL_SF_1094", "FEDERAL_GSA_CARD", "FEDERAL_LETTERHEAD",
                   "GOVERNMENT_ISSUED_CARD", "STATE_ISSUED_CERT", "CUSTOM_LETTER", "UNKNOWN" }

ConfidenceInRange == ret[2] >= 0 /\ ret[2] <= 1000

\* the claim as stated: among the entries with the highest match count a
\* state-specific form wins over MTC_UNIFORM and SST_F0003 wherever it stands
C19_AsStated ==
    Returned("identify_form_type") =>
        /\ ConfidenceInRange
        /\ NoStrongSignal =>
                LET matching == { k \in 1..Len(arg.templates) : MatchCount(k) > 0 }
                    top == Top(matching)
                IN  IF matching = {} THEN ret = <<"UNKNOWN", 0>>
                    ELSE /\ \E k \in top : ret[1] = NameAt(k)
                         /\ (\E k \in top : StateSpecific(NameAt(k))) => StateSpecific(ret[1])

\* C19 (amended): when no strong-signal rule matches, identify_form_type
\* returns, among the catalog entries other than NY_ST_119_1 that match at
\* least one identifier, the first one in catalog order with the highest
\* match count, except that when that entry is MTC_UNIFORM or SST_F0003 and
\* TX_01_339 or MD_GOV_1 stands later with the same count, the first such
\* later entry is returned; any other tie stays with the earlier entry;
\* when no such entry matches the result is (UNKNOWN, 0.0); the confidence
\* is in [0, 1] in every case.
C19_FormByMatchCount ==
    Returned("identify_form_type") =>
        /\ ConfidenceInRange
        /\ NoStrongSignal =>
                LET matching == { k \in 1..Len(arg.templates) :
                                    MatchCount(k) > 0 /\ NameAt(k) # "NY_ST_119_1" }
                    top == Top(matching)
                    preferred == { k \in top : NameAt(k) \in {"TX_01_339", "MD_GOV_1"} }
                IN  IF matching = {} THEN ret = <<"UNKNOWN", 0>>
                    ELSE IF NameAt(First(top)) \in {"MTC_UNIFORM", "SST_F0003"} /\ preferred # {}
                    THEN ret[1] = NameAt(First(preferred))
                    ELSE ret[1] = NameAt(First(top))

\* the Iowa form ties with the uniform certificate that precedes it, and the
\* uniform certificate is returned
C19_Witness ==
    /\ Returned("identify_form_type")
    /\ arg.raw_text = "Iowa sales tax exemption certificate for uniform sales"
    /\ Len(arg.templates) = 3
    /\ NameAt(1) = "MTC_UNIFORM" /\ NameAt(2) = "IA_31_014A" /\ NameAt(3) = "TX_01_339"
    /\ MatchCount(1) = 2 /\ MatchCount(2) = 2
    /\ ret = <<"MTC_UNIFORM", 667>>

----------------------------------------------------------------------------
\* the expiration.state_rule results of a list
StateRuleResults(checks) == SelectSeq(checks, LAMBDA c : c.check_name = "expiration.state_rule")

\* the expiration rule of the jurisdiction and form of the run
RuleInForce == resolve_expiration_rule(result.state, result.form_type)[1]

RuleKind == Get(RuleInForce, "rule", "never")

YearsOfRule == IF RuleKind = "annual" THEN 1 ELSE Get(RuleInForce, "years", 0)

\* the same day and month n years later, Feb 29 becoming Feb 28 in a year without one
YearsLater(dt, n) ==
    IF dt.m = 2 /\ dt.d = 29 /\ ~IsLeap(dt.y + n) THEN Date(dt.y + n, 2, 28) ELSE Date(dt.y + n, dt.m, dt.d)

\* the date the rule is driven by, NoneDate when the certificate lacks it
DrivingDate ==
    IF RuleKind \in {"fixed_years", "annual"} THEN Parsed.cert_date ELSE Parsed.expiration_date

ComputedExpiration ==
    IF RuleKind \in {"fixed_years", "annual"} THEN YearsLater(Parsed.cert_date, YearsOfRule)
    ELSE Parsed.expiration_date

\* days from the day of the run to the computed expiration
DaysAhead == ToOrdinal(ComputedExpiration) - ToOrdinal(today)

\* C20: under a fixed-years, annual or printed/period-date rule whose date
\* is on the certificate, the one expiration.state_rule result is failed
\* HARD_FAIL iff today is after the computed expiration, failed SOFT_FLAG
\* iff the expiration is today or at most 90 days ahead, and passed INFO
\* otherwise; the expiration of a rule of N years is the execution date N
\* years later, a Feb 29 clamped to Feb 28 when the target year has none;
\* under a 'never' rule the result is passed whatever the certificate date.
C20_ExpirationWindow ==
    pc = "done" =>
        LET rs == StateRuleResults(result.checks)
        IN  /\ Len(rs) = 1
            /\ RuleKind = "never" => rs[1].passed /\ rs[1].severity = "INFO"
            /\ (RuleKind \in {"fixed_years", "annual", "state_printed", "period_cert"}
                /\ DrivingDate # NoneDate) =>
                    /\ IsFailed(rs[1], "HARD_FAIL") <=> DaysAhead < 0
                    /\ IsFailed(rs[1], "SOFT_FLAG") <=> (DaysAhead >= 0 /\ DaysAhead <= 90)
                    /\ (rs[1].passed /\ rs[1].severity = "INFO") <=> DaysAhead > 90
                    /\ Contains(rs[1].message, IsoFormat(ComputedExpiration))

\* a certificate executed on 2024-02-29 under the three-year default rule,
\* validated on 2028-02-29: it expired on 2027-02-28
C20_Witness ==
    /\ pc = "done"
    /\ today = LeapToday
    /\ RuleKind = "fixed_years" /\ YearsOfRule = 3
    /\ Parsed.cert_date = Date(2024, 2, 29)
    /\ ComputedExpiration = Date(2027, 2, 28)
    /\ \E k \in 1..Len(result.checks) :
        /\ result.checks[k].check_name = "expiration.state_rule"
        /\ IsFailed(result.checks[k], "HARD_FAIL")
        /\ Contains(result.checks[k].message, "2027-02-28")

\* the printed date is exactly 90 days ahead: renewal is queued
C20_LastDayOfWindow ==
    /\ pc = "done"
    /\ RuleKind = "state_printed"
    /\ DaysAhead = 90
    /\ IsFailed(StateRuleResults(result.checks)[1], "SOFT_FLAG")

\* the printed date is 91 days ahead: the check passes
C20_FirstDayPastWindow ==
    /\ pc = "done"
    /\ RuleKind = "state_printed"
    /\ DaysAhead = 91
    /\ StateRuleResults(result.checks)[1].passed

----------------------------------------------------------------------------
\* the place of each check of run_all_checks in the order of its calls; the
\* names one check can answer with share a place
DeclaredOrder ==
    << {"completeness.purchaser_name"},
       {"completeness.purchaser_name_is_entity"},
       {"completeness.purchaser_address"},
       {"completeness.seller_name"},
       {"completeness.exemption_reason"},
       {"completeness.signature"},
       {"completeness.cert_date"},
       {"completeness.exemption_state"},
       {"completeness.compound_failure"},
       {"form_correctness.form_state_match"},
       {"form_correctness.mtc_resale_only", "form_correctness.mtc_registration_required"},
       {"form_correctness.sst_member"},
       {"state_specific.pa_mtc_license", "state_specific.md_mtc_registration",
        "state_specific.ma_st2_501c3_letter", "state_specific.tx_gov_tax_id_optional"},
       {"expiration.state_rule"},
       {"expiration.future_date"},
       {"expiration.cert_age"},
       {"reasonableness.exemption_for_saas"},
       {"reasonableness.resale_tier"},
       {"reasonableness.entity_exemption_match"},
       {"info.saas_taxability"} >>

\* 0 for a name that no check of run_all_checks answers with
PlaceOf(name) ==
    IF \E p \in 1..Len(DeclaredOrder) : name \in DeclaredOrder[p]
    THEN CHOOSE p \in 1..Len(DeclaredOrder) : name \in DeclaredOrder[p]
    ELSE 0

\* what run_all_checks returned in the run: the check list without the
\* compatibility failure the pipeline puts in front of it
RuleChecks ==
    IF Len(result.checks) > 0 /\ result.checks[1].check_name = "classify.entity_form_compatibility"
    THEN Tail(result.checks) ELSE result.checks

PathwayChecks ==
    { "completeness.purchaser_address", "completeness.seller_name", "completeness.exemption_reason",
      "completeness.signature", "completeness.cert_date" }

Occurrences(checks, name) == Cardinality({ k \in 1..Len(checks) : checks[k].check_name = name })

\* C21: run_all_checks returns a list without null placeholders whose
\* check names follow the declared order, none twice; the address, seller,
\* exemption-reason, signature and certificate-date checks each give
\* exactly one result on the STANDARD_SELF_COMPLETED and
\* MULTI_STATE_UNIFORM pathways and none on any other pathway.
C21_CheckList ==
    pc = "done" =>
        /\ \A k \in 1..Len(RuleChecks) :
            /\ RuleChecks[k] # NoneResult
            /\ PlaceOf(RuleChecks[k].check_name) > 0
        /\ \A j, k \in 1..Len(RuleChecks) :
            j < k => PlaceOf(RuleChecks[j].check_name) < PlaceOf(RuleChecks[k].check_name)
        /\ \A name \in PathwayChecks :
            Occurrences(RuleChecks, name)
                = IF result.pathway \in {"STANDARD_SELF_COMPLETED", "MULTI_STATE_UNIFORM"} THEN 1 ELSE 0

\* a government card: none of the five checks is in the list
C21_Witness ==
    /\ pc = "done"
    /\ result.pathway = "GOV_CARD_NO_EXPIRY"
    /\ \A name \in PathwayChecks : Occurrences(RuleChecks, name) = 0
    /\ Occurrences(RuleChecks, "completeness.purchaser_name") = 1
    /\ Occurrences(RuleChecks, "expiration.state_rule") = 1

\* a self-completed form: each of the five checks is in the list once
C21_SelfCompleted ==
    /\ pc = "done"
    /\ result.pathway = "STANDARD_SELF_COMPLETED"
    /\ \A name \in PathwayChecks : Occurrences(RuleChecks, name) = 1

----------------------------------------------------------------------------
\* the jurisdiction of the call as a code: trimmed, in upper case
Jurisdiction == Upper(Strip(arg.state))

PassedInfo(check) == check # NoneResult /\ check.passed /\ check.severity = "INFO"

\* C22: check_form_correct_for_state abstains iff the jurisdiction is empty
\* or the form type is UNKNOWN; otherwise it passes (INFO) for the three
\* federal forms, MTC_UNIFORM and SST_F0003 in every jurisdiction, and for
\* a form of the form-to-jurisdiction table it fails HARD_FAIL iff the
\* jurisdiction differs from the form's own and passes (INFO) otherwise.
C22_FormStateMatch ==
    Returned("check_form_correct_for_state") =>
        /\ ret = NoneResult <=> (Jurisdiction = "" \/ arg.form_type = "UNKNOWN")
        /\ ret # NoneResult =>
            /\ ret.check_name = "form_correctness.form_state_match"
            /\ arg.form_type \in {"FEDERAL_SF_1094", "FEDERAL_GSA_CARD", "FEDERAL_LETTERHEAD",
                                    "MTC_UNIFORM", "SST_F0003"} => PassedInfo(ret)
            /\ arg.form_type \in DOMAIN FormStateMap =>
                /\ IsFailed(ret, "HARD_FAIL") <=> FormStateMap[arg.form_type] # Jurisdiction
                /\ PassedInfo(ret) <=> FormStateMap[arg.form_type] = Jurisdiction

\* the New York letter offered for a Texas claim
C22_Witness ==
    /\ Returned("check_form_correct_for_state")
    /\ arg.form_type = "NY_GOV_LETTER"
    /\ arg.state = "tx"
    /\ IsFailed(ret, "HARD_FAIL")
    /\ ret.message = "New York Government Letter is a NY form and cannot support a TX claim."

----------------------------------------------------------------------------
\* the exemption category of the call: the one on the certificate, else the
\* one its exemption reason names, else "None"
ClaimedCategory ==
    IF arg.fields.exemption_category # "None" THEN arg.fields.exemption_category
    ELSE IF Contains(Lower(arg.fields.exemption_reason), "resale") THEN "RESALE"
    ELSE "None"

StreamlinedMember == Upper(Strip(arg.state)) \in SstMemberStates

\* a nonprofit kind of entity claiming resale, or a for-profit one claiming a government exemption
WrongBasis ==
    \/ /\ arg.entity_type \in {"NONPROFIT_501C3", "EXEMPT_ORG_OTHER", "RELIGIOUS", "EDUCATIONAL"}
       /\ ClaimedCategory = "RESALE"
    \/ arg.entity_type = "FOR_PROFIT" /\ ClaimedCategory = "GOVERNMENT"

\* a government entity with the manufacturing or agriculture box
GovernmentWrongBox ==
    /\ arg.entity_type \in {"FEDERAL_GOVERNMENT", "STATE_GOVERNMENT", "LOCAL_GOVERNMENT", "TRIBAL"}
    /\ ClaimedCategory \in {"MANUFACTURING", "AGRICULTURE"}

\* C23: check_entity_exemption_match abstains without a derivable category;
\* with one, a nonprofit/exempt-org/religious/educational entity claiming
\* RESALE or a for-profit entity claiming GOVERNMENT fails at REASONABLENESS
\* outside the streamlined-tax member jurisdictions and at SOFT_FLAG inside
\* them; a federal/state/local/tribal entity claiming MANUFACTURING or
\* AGRICULTURE fails at INFO everywhere, which changes neither disposition
\* nor confidence; every other combination passes at INFO.
C23_EntityExemptionMatch ==
    Returned("check_entity_exemption_match") =>
        IF ClaimedCategory = "None" THEN ret = NoneResult
        ELSE /\ ret # NoneResult
             /\ ret.check_name = "reasonableness.entity_exemption_match"
             /\ WrongBasis /\ ~StreamlinedMember => IsFailed(ret, "REASONABLENESS")
             /\ WrongBasis /\ StreamlinedMember => IsFailed(ret, "SOFT_FLAG")
             /\ GovernmentWrongBox =>
                    /\ IsFailed(ret, "INFO")
                    /\ determine_disposition(<<ret>>, arg.fields, "TX_01_339", arg.entity_type)
                        = determine_disposition(<<>>, arg.fields, "TX_01_339", arg.entity_type)
             /\ ~WrongBasis /\ ~GovernmentWrongBox => PassedInfo(ret)

\* a church claiming resale in Ohio, a member jurisdiction
C23_Witness ==
    /\ Returned("check_entity_exemption_match")
    /\ arg.entity_type = "RELIGIOUS"
    /\ arg.fields.exemption_category = "None" /\ arg.fields.exemption_reason = "Resale"
    /\ arg.state = " oh "
    /\ IsFailed(ret, "SOFT_FLAG")

\* a tribal entity with the agriculture box in Texas: failed, for the record only
C23_NoteOnly ==
    /\ Returned("check_entity_exemption_match")
    /\ arg.entity_type = "TRIBAL"
    /\ arg.fields.exemption_category = "AGRICULTURE"
    /\ arg.state = "TX"
    /\ IsFailed(ret, "INFO")

----------------------------------------------------------------------------
\* the two results are in one group of the answer: paired with each other,
\* or both paired with the same canonical result
ReportedDuplicates(pairs, a, b) ==
    LET Paired(x, y) == \E k \in 1..Len(pairs) : pairs[k] = <<x, y>>
    IN  \/ Paired(a, b) \/ Paired(b, a)
        \/ \E k \in 1..Len(pairs) : Paired(pairs[k][1], a) /\ Paired(pairs[k][1], b)

SameCustomer(x, y) ==
    /\ normalize_name(x.customer_name) = normalize_name(y.customer_name)
    /\ Upper(Strip(x.state)) = Upper(Strip(y.state))

\* C24: two results without a certificate date are reported as duplicates
\* iff their normalized names, jurisdictions and form types are equal,
\* whatever their expiration dates and exemption categories; two results
\* with a certificate date are reported as duplicates iff normalized name,
\* jurisdiction, exemption category and certificate date are equal.
C24_DuplicateFingerprint ==
    Returned("find_duplicates") =>
        \A i, j \in 1..Len(arg.results) :
            LET x == arg.results[i]
                y == arg.results[j]
                reported == ReportedDuplicates(ret, item_id(x), item_id(y))
            IN  /\ (i < j /\ x.cert_date = "" /\ y.cert_date = "") =>
                        (reported <=> (SameCustomer(x, y) /\ Strip(x.form_type) = Strip(y.form_type)))
                /\ (i < j /\ x.cert_date # "" /\ y.cert_date # "") =>
                        (reported <=> /\ SameCustomer(x, y)
                                      /\ Lower(Strip(x.exemption_category)) = Lower(Strip(y.exemption_category))
                                      /\ x.cert_date = y.cert_date)

----------------------------------------------------------------------------
\* the duplicate pass of the batch run has been made
DuplicatePassMade == mode # "single" /\ ret # NoRet

\* the batch run is over: it wrote its report or an exception ended it
BatchEnded == mode # "single" /\ pc \in {"reported", "raised"}

\* the documents of the batch that are certificates to validate
ToValidate == { k \in 1..Len(docs) : mode = "local" \/ docs[k].id # "" }

\* C25: a batch run makes exactly one duplicate pass, and makes it after
\* every certificate of the batch has been validated and its result
\* collected: a run that is over has made its pass, and the pass was made
\* on the results of all certificates.
C25_DuplicatePassOnce ==
    /\ BatchEnded => DuplicatePassMade
    /\ DuplicatePassMade =>
            /\ Len(batch_results) = Cardinality(ToValidate)
            /\ \A k \in ToValidate : ReportedFor(k) # {}
            /\ ret = ReportDuplicates(batch_results)

\* once the duplicate pass is made no validation starts or finishes and no
\* second pass is made
C25_NothingAfterPass == [][DuplicatePassMade => UNCHANGED vars]_vars

\* the pass is made on all results or not at all
C25_PassOnAllResults ==
    DuplicatePassMade =>
        /\ pc = "reported"
        /\ Len(batch_results) = Cardinality(ToValidate)
        /\ \A k \in ToValidate : ReportedFor(k) # {}

\* three Texas certificates of one customer: the pass names two duplicates
C25_PassWithDuplicates ==
    /\ DuplicatePassMade
    /\ mode = "local"
    /\ Len(batch_results) = 3
    /\ ret = << <<"a", "b">>, <<"a", "c">> >>

----------------------------------------------------------------------------
\* C26: the expiration rule kind recorded on the ValidationResult is the
\* rule kind the expiration.state_rule check applied to the certificate,
\* for every jurisdiction and form type: federal forms, jurisdictions with
\* a form-specific rule and jurisdictions absent from the rule table too.
C26_RecordedRuleIsApplied ==
    pc = "done" => result.expiration_rule = RuleKind

\* on a federal form the check applies the federal rule and passes, and the
\* result records the rule of the jurisdiction
C26_FederalFormInAlabama ==
    /\ pc = "done"
    /\ result.form_type = "FEDERAL_SF_1094" /\ result.state = "AL"
    /\ Parsed.cert_date = Date(2020, 2, 21)
    /\ RuleKind = "never"
    /\ PassedInfo(StateRuleResults(result.checks)[1])
    /\ result.expiration_rule = "annual"

\* a jurisdiction absent from the rule table: both resolve through DEFAULT
C26_DefaultRule ==
    pc = "done" /\ result.state \notin DOMAIN ExpirationRules /\ result.form_type \notin FederalForms
        => result.expiration_rule = RuleKind

----------------------------------------------------------------------------
\* the completeness.exemption_state results of a list
ExemptionStateResults(checks) == SelectSeq(checks, LAMBDA c : c.check_name = "completeness.exemption_state")

\* C27: in every run of validate_certificate the resolved jurisdiction is a
\* non-empty string: the caller's override if one is given, else the
\* extracted purchaser state, else 'UNKNOWN' (a blank value resolves to
\* 'UNKNOWN'); so completeness.exemption_state always passes and the
\* HARD_FAIL 'could not determine exemption state' is never in the result.
C27_JurisdictionResolved ==
    pc = "done" =>
        LET chosen == IF state_arg # "" THEN state_arg ELSE Parsed.purchaser_state
            states == ExemptionStateResults(result.checks)
        IN  /\ result.state # ""
            /\ result.state = (IF Upper(Strip(chosen)) # "" THEN Upper(Strip(chosen)) ELSE "UNKNOWN")
            /\ Len(states) = 1
            /\ PassedInfo(states[1])
            /\ states[1].message = "Exemption state identified: " \o result.state
            /\ \A k \in 1..Len(result.checks) :
                result.checks[k].message # "Could not determine exemption state from certificate."

\* no override, no purchaser state and no listed exemption state
C27_Witness ==
    /\ pc = "done"
    /\ state_arg = ""
    /\ Parsed.purchaser_state = ""
    /\ Parsed.exemption_states = <<>>
    /\ result.state = "UNKNOWN"
    /\ \E k \in 1..Len(result.checks) :
        /\ result.checks[k].check_name = "completeness.exemption_state"
        /\ result.checks[k].passed

----------------------------------------------------------------------------
\* the run used the local extraction
LocalPath == llm_fields.extraction_confidence < 50

FailedCheck(name) ==
    \E k \in 1..Len(result.checks) : result.checks[k].check_name = name /\ ~result.checks[k].passed

\* C28: on the local-extraction path the signature flag is never unset and
\* is true whenever a certificate date was parsed, so the flag of the
\* document-text stage is not used; a failed completeness.signature check
\* then comes with a failed completeness.cert_date check in the same run.
C28_LocalSignature ==
    (pc = "done" /\ LocalPath) =>
        /\ regex_fields.signature_present \in {"True", "False"}
        /\ regex_fields.cert_date # NoneDate => regex_fields.signature_present = "True"
        /\ Parsed.signature_present = regex_fields.signature_present
        /\ FailedCheck("completeness.signature") => FailedCheck("completeness.cert_date")

\* the document-text stage saw a signature mark, the text has no signature
\* label and no date: both checks fail
C28_Witness ==
    /\ pc = "done" /\ LocalPath
    /\ extracted.signature_present = "True"
    /\ extracted.raw_text = "Exemption letter"
    /\ result.form_type = "TX_01_339"
    /\ FailedCheck("completeness.signature")
    /\ FailedCheck("completeness.cert_date")

\* a date and no signature label: the signature check passes on the date alone
C28_SignedByDate ==
    /\ pc = "done" /\ LocalPath
    /\ extracted.signature_present = "False"
    /\ extracted.raw_text = "Signed 01/15/2025"
    /\ regex_fields.cert_date = Date(2025, 1, 15)
    /\ result.form_type = "TX_01_339"
    /\ ~FailedCheck("completeness.signature")

----------------------------------------------------------------------------
Listing == mode = "listing"

LastResponse == responses[Len(responses)]

\* the offsets of the pages received, in the order they were received
RECURSIVE PageOffsets(_)
PageOffsets(log) ==
    IF Len(log) = 0 THEN <<>>
    ELSE PageOffsets(SubSeq(log, 1, Len(log) - 1))
         \o (IF log[Len(log)].status = 200 THEN <<log[Len(log)].skip>> ELSE <<>>)

\* the pages were asked for at 0, b, 2b, ..., each once
OffsetsInOrder ==
    LET offsets == PageOffsets(responses)
    IN  \A k \in 1..Len(offsets) : offsets[k] = (k - 1) * capped_batch(arg.batch_size)

\* C29: list_all_certificates returns the pages at offsets 0, b, 2b, ...
\* (b the batch size clamped to 1..1000) in order, each once; after a 429
\* it asks for the same offset again; any other API error goes to the
\* caller; it returns at the first page that is empty or shorter than b.
C29_Pagination ==
    Listing =>
        /\ OffsetsInOrder
        /\ pc = "returned" => ret = arg.certs
        /\ (responses # <<>> /\ LastResponse.status = 429) => (pc = "request" /\ skip = LastResponse.skip)
        /\ (responses # <<>> /\ LastResponse.status \notin {200, 429}) => pc = "raised"

\* what holds of the pages and of the 429 answers
C29_PagesInOrder ==
    Listing =>
        /\ OffsetsInOrder
        /\ pc = "returned" => ret = arg.certs
        /\ pc = "request" => all_certs = SubSeq(arg.certs, 1, skip)
        /\ (responses # <<>> /\ LastResponse.status = 429) => (pc = "request" /\ skip = LastResponse.skip)

\* four certificates in pages of two with a 429 in between: nothing lost, nothing twice
C29_RetriedPage ==
    /\ Listing /\ pc = "returned"
    /\ arg.batch_size = 2 /\ Len(arg.certs) = 4
    /\ Len(responses) = 4
    /\ responses[2].status = 429
    /\ ret = <<1, 2, 3, 4>>

\* the upload was answered by the handler's own response
Answered200 == mode = "http" /\ pc = "responded"

\* the vision service reads the uploaded document
ReadableUpload == ~arg.content.llm_raised

\* the response of the except branch
FallbackResponse ==
    /\ ret.validation.disposition = "NEEDS_HUMAN_REVIEW"
    /\ ret.summary.confidence_score = 0
    /\ \E k \in 1..Len(ret.validation.notes) : StartsAt(ret.validation.notes[k], 1, "Extraction failed: ")

\* C30 as stated: the /validate endpoint answers a readable upload with the
\* disposition the rule engine computes on the fields extracted from it, and
\* never with the fallback response (NEEDS_HUMAN_REVIEW, confidence 0, note
\* "Extraction failed: ...").
C30_ValidateEndpoint ==
    (Answered200 /\ ReadableUpload) =>
        /\ ret.validation.disposition = run_validation(arg.content.llm_answer, today).disposition
        /\ ~FallbackResponse

\* a readable, signed Texas 01-339 on which the rule engine does not ask for
\* review is answered with the fallback response
C30_ReadableTexasUpload ==
    /\ Answered200
    /\ arg.content = TexasContent
    /\ run_validation(arg.content.llm_answer, today).disposition # "NEEDS_HUMAN_REVIEW"
    /\ FallbackResponse

\* every answer of the handler is the fallback response, whose notes carry
\* the TypeError of the call twice
C30_AlwaysFallback ==
    Answered200 =>
        /\ FallbackResponse
        /\ ret.validation.notes =
             << "Extraction failed: extract_fields_via_llm() got an unexpected keyword argument 'fallback_to_regex'",
                "Extraction failed: extract_fields_via_llm() got an unexpected keyword argument 'fallback_to_regex'" >>

====
